---- MODULE Spec2Model ----
(***************************************************************************)
(* The ingest endpoint of src/app/api/jobs/ingest/route.ts as a state      *)
(* machine.  Every run of POST is a process; the relational store          *)
(* (documents, doc_versions, share_surfaces, doc_sections, jobs) and the   *)
(* vector index (one namespace per (document_id, doc_version_id)) are the  *)
(* shared state.  Each awaited external call is one atomic action.         *)
(* The retrieval endpoint (app/api/retrieve/route.ts) and the answer        *)
(* endpoint (app/api/agent/tools/answer_from_doc/route.ts) read the same    *)
(* stores; a request to either is a process of its own.  smartChunk, the    *)
(* chunker of the ingest route, is also run on its own over bounded texts.  *)
(***************************************************************************)
EXTENDS Integers, Sequences, FiniteSets, TLC

\* ---------------------------------------------------------------- bounds
\* Number of code units of an extracted text (texts that reach the snippet
\* cap have SNIPPET_MAX - 1 or SNIPPET_MAX letters before them).
MaxUnits == 4

\* Number of blocks (runs of text between blank lines) of a text given to
\* smartChunk.
MaxParas == 3

\* Number of relational writes of a behaviour that return an error.
MaxWriteFaults == 1

\* The largest maxChars and overlap of a call of smartChunk with parameters
\* other than the defaults, the longest s such a call hard-slices, and the
\* number of windows after which a loop that does not end is left alone.
MaxParam == 3
MaxSliced == 7
MaxPushed == 8

\* The longest id of a namespace string.
MaxIdLen == 3

\* The ingest requests of a behaviour: the claims are about one run and about
\* two runs, one after the other or concurrent.
Runs == {1, 2}

\* Identifiers a caller can supply (or cryptoRandomId can draw), in the order
\* in which requests first use them.
DocOrder == <<"d1", "d2">>
VerOrder == <<"v1", "v2">>
Docs == {DocOrder[i] : i \in 1..Len(DocOrder)}
Vers == {VerOrder[i] : i \in 1..Len(VerOrder)}

\* ------------------------------------------------------ program constants
\* chunkArray(inputs, 96) in embedChunks.
EMBED_BATCH == 96
\* chunkArray(records, 150) in POST.
UPSERT_BATCH == 150
\* withRetry(fn, tries = 4).
TRIES == 4
\* PINECONE_DIM = Number(process.env.PINECONE_DIM || 1536).
PINECONE_DIM == 1536
\* safeSnippet(s, max = 500) and b[i].slice(0, 500).
SNIPPET_MAX == 500
\* smartChunk(text, maxChars = 1800, overlap = 200).
MAX_CHARS == 1800
OVERLAP == 200
\* MAX_CONTEXT_CHARS of the answer endpoint.
MAX_CONTEXT_CHARS == 12000
\* .slice(0, 300) of the excerpt of a citation.
EXCERPT_MAX == 300
\* `if (textA.length > 20) return textA` in extractText.
TRIVIAL_LENGTH == 20
\* p.topK ?? p.topk ?? 5 in both query endpoints.
TOPK_DEFAULT == 5
\* clampInt(..., 1, 10) in the retrieval endpoint.
RETRIEVE_TOPK_MAX == 10
\* clampInt(..., 1, 8) in the answer endpoint.
ANSWER_TOPK_MAX == 8

\* The lengths of the vectors the embedding service can return: that of the
\* index, and another (a model of twice the dimensions).
Dims == {PINECONE_DIM, 2 * PINECONE_DIM}

\* Chunk counts smartChunk can return for the downloaded document: none, one,
\* two (a single batch) and one more than an upsert batch (two embedding
\* batches, two upsert batches).
ChunkCounts == {0, 1, 2, UPSERT_BATCH + 1}

\* Record indexes a namespace can hold (record id = `${document_id}-${i}`).
Idx == 0..UPSERT_BATCH

\* process.env names the ingest route reads through requireEnv / getAdmin.
EnvNames == {"SUPABASE_STORAGE_BUCKET", "PINECONE_API_KEY", "PINECONE_INDEX",
             "OPENAI_API_KEY", "NEXT_PUBLIC_SUPABASE_URL",
             "SUPABASE_SERVICE_ROLE_KEY"}

\* The external calls of one run other than relational writes.
CallNames == {"download", "embed", "deleteAll", "upsert"}

\* The relational writes of one run, by the table and status they write.
WriteNames == {"documents", "doc_versions", "share_surfaces", "doc_sections",
               "ready", "succeeded", "error", "failed"}

\* The two query endpoints.
QueryEndpoints == {"retrieve", "answer"}

\* The external calls of a retrieval / answer request.
QueryCalls == {"lookup_slug", "embed", "pinecone_query", "llm"}

\* Values of the topK field of a request (p.topK ?? p.topk): absent, null,
\* the numbers -3, 0, 3, 2.5 and 20 (a number is kept as twice its value), the
\* string "7" and a string that is not a number.
TopKInputs ==
    {[type |-> "undefined"], [type |-> "null"],
     [type |-> "number", twice |-> -6], [type |-> "number", twice |-> 0],
     [type |-> "number", twice |-> 6], [type |-> "number", twice |-> 5],
     [type |-> "number", twice |-> 2 * (2 * RETRIEVE_TOPK_MAX)],
     [type |-> "string", numeric |-> TRUE, digits |-> 7],
     [type |-> "string", numeric |-> FALSE, digits |-> 0]}

\* The relational writes of a run whose failure is only logged as a warning.
BestEffortWrites == {"documents", "doc_versions", "share_surfaces",
                     "doc_sections", "ready", "succeeded"}

VARIABLES
    env,             \* the set of EnvNames that are set in process.env
    serial,          \* TRUE: requests arrive one after the other
    faults,          \* relational writes that may still return an error
    documents,       \* documents table: the ids that have a row
    doc_versions,    \* doc_versions table: id -> [status, document_id]
    share_surfaces,  \* share_surfaces table: document_id -> live_version_id
    page_slug,       \* share_surfaces table: document_id -> page_slug
    slugs,           \* the slugs callers supply in body.slug
    idPairs,         \* the (document_id, doc_version_id) of an ingest request
                     \* and of a query request, as strings of characters
    namespaces,      \* the namespace strings the two requests have built
    doc_sections,    \* doc_sections table: the rows, as <<doc_version_id, idx, run>>
    jobs,            \* jobs table: <<document_id, doc_version_id>> -> [status, error]
    ns,              \* vector index: <<document_id, doc_version_id>> -> the
                     \* records of the namespace, as ranges [lo, hi) of record
                     \* indexes with the run whose vectors they hold
    pc,              \* position of each run in POST
    req,             \* each run's request: body kind, document_id, doc_version_id
    chunks,          \* chunks.length of each run
    vectors,         \* embedChunks' result so far, one entry per batch: the
                     \* number n of vectors, their length dim, and the
                     \* indexes of the chunks the first of them has its
                     \* embedding (emb) and its snippet (snip) from; the
                     \* others follow in order (a local: gone when the run
                     \* returns)
    batch,           \* index of the batch the current loop is at
    attempt,         \* withRetry's loop variable i
    resp,            \* the response of each run: [status, error, chunks]
    log,             \* history of each run: the external calls it has made,
                     \* those that failed without ending the run, and the
                     \* outcome that made the run fail
    secret,          \* TRUE: ELEVEN_TOOL_SECRET is set
    qpc,             \* position of the retrieval / answer request in its POST
    qreq,            \* the retrieval / answer request
    target,          \* its document_id and doc_version_id: those of the body,
                     \* or those the slug resolved to
    topK,            \* its topK (twice the number), 0 before it is computed
    matches,         \* res.matches of its vector query, best first: the
                     \* idx and the length of the text_snippet of each
    contexts,        \* the context block sent to the completion model: its
                     \* length and the numbers n of the markers [#n in it
    qlog,            \* the external calls it has made
    qresp,           \* its response: [status, error, text, citations]
    text,            \* smartChunk's argument: its blocks, each with the
                     \* whitespace before its first character (pad) and its
                     \* trimmed length (len)
    at,              \* index in paras of the paragraph the for loop is at
    buf,             \* smartChunk's buf
    out,             \* smartChunk's out: the texts of the chunks
    cpc,             \* position in smartChunk: "idle", "for", "flush", "return"
    loop,            \* the while loop of flush: the length of s, start,
                     \* maxChars, overlap, the number of out.push so far and
                     \* the position ("idle", "while", "done")
    raw,             \* rawText, the extracted text: a sequence of UTF-16 code
                     \* units
    sanitized,       \* scrubUnicode(rawText)
    cleaned,         \* normalizeText(sanitized), the text given to smartChunk
    text_snippet,    \* metadata.text_snippet of the record of the first chunk
    spc,             \* position in the cleaning: "idle", "scrubUnicode",
                     \* "normalizeText", "smartChunk", "record"
    bucket,          \* the objects of the storage bucket a request can name
    file,            \* the object each run has downloaded (ext of its
                     \* path, and arrayBuf as what each extractor makes
                     \* of it)
    props,           \* the props of the embed Client: agentId, inlineMode
    phase,           \* the phase state of the Client
    err,             \* the err state of the Client
    conversation,    \* what useConversation holds: the status of the SDK
                     \* and the promises of startSession and endSession
                     \* ("none", "pending", "resolved", "rejected")
    effectStatus,    \* the status the useEffect has last run with
    startAt,         \* where start() is: "idle", or the await it is at
    stopAt           \* where stop() is: "idle", or the await it is at

\* The state of a retrieval / answer request.
queryVars == <<secret, qpc, qreq, target, topK, matches, contexts, qlog, qresp>>

\* The state of a call of smartChunk.
chunkVars == <<text, at, buf, out, cpc, loop>>

\* The state of the cleaning of an extracted text.
cleanVars == <<raw, sanitized, cleaned, text_snippet, spc>>

\* The stored objects and the downloads of the runs.
extractVars == <<bucket, file>>

\* The ids of two requests and the namespace strings built from them.
keyVars == <<idPairs, namespaces>>

\* The state of the embed widget client.
widgetVars == <<props, phase, err, conversation, effectStatus, startAt, stopAt>>

vars == <<env, serial, slugs, faults, documents, doc_versions, share_surfaces, page_slug,
          doc_sections,
          jobs, ns, pc, req, chunks, vectors, batch, attempt, resp, log, queryVars, chunkVars, cleanVars,
          extractVars, keyVars, widgetVars>>

shared == <<documents, doc_versions, share_surfaces, page_slug, doc_sections, jobs, ns>>

\* ---------------------------------------------------------------- helpers
Min(a, b) == IF a < b THEN a ELSE b
Max(a, b) == IF a > b THEN a ELSE b

\* chunkArray(arr, size): the number of batches of a list of n elements and
\* the half-open index range [lo, hi) of batch k.
chunkArrayLen(n, size) == (n + size - 1) \div size
chunkArrayLo(k, size) == k * size
chunkArrayHi(k, n, size) == Min(n, (k + 1) * size)

\* requireEnv(name) throws when the name is not set.
requireEnv(name) == name \in env

\* ConfigError with getOpenAI building the client without requireEnv.
ConfigErrorNoOpenAI ==
    IF ~requireEnv("SUPABASE_STORAGE_BUCKET")
      THEN "Missing required env: SUPABASE_STORAGE_BUCKET"
    ELSE IF ~requireEnv("PINECONE_API_KEY")
      THEN "Missing required env: PINECONE_API_KEY"
    ELSE IF ~requireEnv("PINECONE_INDEX")
      THEN "Missing required env: PINECONE_INDEX"
    ELSE ""

\* getConfig, getPineconeIndex, getOpenAI in the order POST calls them: the
\* message of the first requireEnv that throws, "" when none does.
ConfigError ==
    IF ~requireEnv("SUPABASE_STORAGE_BUCKET")
      THEN "Missing required env: SUPABASE_STORAGE_BUCKET"
    ELSE IF ~requireEnv("PINECONE_API_KEY")
      THEN "Missing required env: PINECONE_API_KEY"
    ELSE IF ~requireEnv("PINECONE_INDEX")
      THEN "Missing required env: PINECONE_INDEX"
    ELSE IF ~requireEnv("OPENAI_API_KEY")
      THEN "Missing required env: OPENAI_API_KEY"
    ELSE ""

\* getAdmin throws on the first property access of supabaseAdmin when the
\* url or the service key is not set.
getAdminThrows ==
    ~("NEXT_PUBLIC_SUPABASE_URL" \in env /\ "SUPABASE_SERVICE_ROLE_KEY" \in env)

NoResp == [status |-> 0, error |-> "", chunks |-> 0]
NoReq == [body |-> "none", document_id |-> "none", doc_version_id |-> "none",
          slug |-> "none"]
NoLog == [calls |-> {}, failed |-> {}, cause |-> "none"]

\* An extractor throws on the buffer.
Throws == -1

\* The lengths of an extracted and trimmed text: none, the longest that the
\* fast pdf extractor's gate rejects, and one more.
TextLengths == {0, TRIVIAL_LENGTH, TRIVIAL_LENGTH + 1}

\* A stored object: the extension guessExt finds in its path and, for its
\* bytes, what each extractor makes of them: Throws, or the length of the
\* trimmed text it returns (fast: pdf-parse, pages: pdfjs-dist, docx:
\* mammoth, html: stripHtml of the decoded bytes, plain: the decoded bytes).
\* TextDecoder("utf-8") replaces malformed input and does not throw.  The
\* fields of the extractors that extractText does not call for the extension
\* are Throws.
Objects ==
    {o \in [ext : {"pdf", "docx", "html", "txt"},
            fast : {Throws} \cup TextLengths,
            pages : {Throws} \cup (TextLengths \ {TRIVIAL_LENGTH}),
            docx : {Throws} \cup (TextLengths \ {TRIVIAL_LENGTH}),
            html : {Throws} \cup (TextLengths \ {TRIVIAL_LENGTH}),
            plain : TextLengths \ {TRIVIAL_LENGTH}] :
       /\ o.ext # "pdf" => o.fast = Throws /\ o.pages = Throws
       /\ o.ext # "docx" => o.docx = Throws
       /\ o.ext = "html" <=> o.html # Throws
       /\ o.ext = "html" => (o.html > 0 => o.plain > 0)}

\* The plain-text objects: one with text, one empty.
TextObjects == {o \in Objects : o.ext = "txt"}

\* No object downloaded.
NoFile == [ext |-> "none", fast |-> Throws, pages |-> Throws, docx |-> Throws,
           html |-> Throws, plain |-> 0]

\* Ids are opaque: a request uses an id an earlier request used, or the next
\* one of the order.
Usable(order, used) ==
    {order[i] : i \in {j \in 1..Len(order) : j <= Cardinality(used) + 1}}
UsedDocs == {req[q].document_id : q \in Runs} \ {"none"}
UsedVers == {req[q].doc_version_id : q \in Runs} \ {"none"}

\* Namespace keyed by the document alone.
NamespacePerDocument(r) == <<req[r].document_id, VerOrder[1]>>

\* The characters of the ids of the namespace strings.
IdChars == {":", "v"}

\* The ids a caller can put in a body: the non-empty strings of at most
\* MaxIdLen characters (an empty id is replaced by a random one in the
\* ingest, and refused by the query endpoints).
Ids == UNION {[1..k -> IdChars] : k \in 1..MaxIdLen}

\* namespace = `doc:${document_id}:v:${doc_version_id}`
namespace(document_id, doc_version_id) ==
    <<"d", "o", "c", ":">> \o document_id \o <<":", "v", ":">> \o doc_version_id

\* No request has built a namespace string.
IdleKeys ==
    /\ idPairs = <<>>
    /\ namespaces = <<>>

\* The ingest request builds the namespace string of its ids (and upserts
\* into that namespace).
IngestNamespace ==
    /\ idPairs # <<>>
    /\ Len(namespaces) = 0
    /\ namespaces' = Append(namespaces, namespace(idPairs[1][1], idPairs[1][2]))
    /\ UNCHANGED <<idPairs, widgetVars, extractVars, queryVars, chunkVars, cleanVars, env, serial, slugs,
                   faults, shared, pc, req, chunks, vectors, batch, attempt, resp, log>>

\* The query request builds the namespace string of its ids (and queries
\* that namespace).
QueryNamespace ==
    /\ idPairs # <<>>
    /\ Len(namespaces) = 1
    /\ namespaces' = Append(namespaces, namespace(idPairs[2][1], idPairs[2][2]))
    /\ UNCHANGED <<idPairs, widgetVars, extractVars, queryVars, chunkVars, cleanVars, env, serial, slugs,
                   faults, shared, pc, req, chunks, vectors, batch, attempt, resp, log>>

\* The session of the SDK before startSession is called.
NoConversation == [status |-> "disconnected", started |-> "none", ended |-> "none"]

\* The Client is not mounted.
IdleWidget ==
    /\ props = [agentId |-> "", inlineMode |-> FALSE]
    /\ phase = "idle"
    /\ err = ""
    /\ conversation = NoConversation
    /\ effectStatus = "none"
    /\ startAt = "idle"
    /\ stopAt = "idle"

\* The catch of start(): setPhase("ready"), setErr(msg).
StartCatch ==
    /\ phase' = "ready"
    /\ err' = "msg"
    /\ startAt' = "idle"

\* The useEffect on [status], run after a render in which status differs
\* from the one it last ran with: connected and connecting are copied to the
\* phase, idle and disconnected give "ready".
NormalizeStatus ==
    /\ effectStatus # conversation.status
    /\ effectStatus' = conversation.status
    /\ phase' = IF conversation.status \in {"connected", "connecting"}
                  THEN conversation.status
                ELSE IF conversation.status \in {"idle", "disconnected"}
                  THEN "ready"
                ELSE phase
    /\ UNCHANGED <<props, err, conversation, startAt, stopAt>>
    /\ UNCHANGED <<keyVars, extractVars, queryVars, chunkVars, cleanVars, env, serial, slugs,
                   faults, shared, pc, req, chunks, vectors, batch, attempt, resp, log>>

\* A click on the start button, which the inline UI shows when the phase is
\* idle or ready and the full UI enables unless the phase is connecting or
\* the status connected.  start() up to its first await: setErr(""), the
\* throw without an agentId, setPhase("connecting"), and getUserMedia where
\* the browser has it, the fetch of the signed URL where not.
StartClick ==
    /\ startAt = "idle"
    /\ IF props.inlineMode THEN phase \in {"idle", "ready"}
       ELSE phase # "connecting" /\ conversation.status # "connected"
    /\ IF props.agentId = ""
         THEN StartCatch
         ELSE /\ err' = ""
              /\ phase' = "connecting"
              /\ startAt' \in {"getUserMedia", "fetch"}
    /\ UNCHANGED <<props, conversation, effectStatus, stopAt>>
    /\ UNCHANGED <<keyVars, extractVars, queryVars, chunkVars, cleanVars, env, serial, slugs,
                   faults, shared, pc, req, chunks, vectors, batch, attempt, resp, log>>

\* await navigator.mediaDevices.getUserMedia({audio: true}) settles: start()
\* goes on to the fetch, or to the catch when the microphone is refused.
GetUserMedia ==
    /\ startAt = "getUserMedia"
    /\ \/ startAt' = "fetch" /\ UNCHANGED <<phase, err>>
       \/ StartCatch
    /\ UNCHANGED <<props, conversation, effectStatus, stopAt>>
    /\ UNCHANGED <<keyVars, extractVars, queryVars, chunkVars, cleanVars, env, serial, slugs,
                   faults, shared, pc, req, chunks, vectors, batch, attempt, resp, log>>

\* The fetch of /api/eleven/get-signed-url and res.json() settle: without a
\* signed URL start() goes to the catch; with one it calls startSession,
\* which returns the id of the open session when there is one and otherwise
\* sets the status to connecting and opens one.
FetchSignedUrl ==
    /\ startAt = "fetch"
    /\ \/ StartCatch /\ UNCHANGED conversation
       \/ /\ startAt' = "startSession"
          /\ UNCHANGED <<phase, err>>
          /\ conversation' =
               IF conversation.status = "connected"
                 THEN [conversation EXCEPT !.started = "resolved"]
                 ELSE [conversation EXCEPT !.status = "connecting",
                                           !.started = "pending"]
    /\ UNCHANGED <<props, effectStatus, stopAt>>
    /\ UNCHANGED <<keyVars, extractVars, queryVars, chunkVars, cleanVars, env, serial, slugs,
                   faults, shared, pc, req, chunks, vectors, batch, attempt, resp, log>>

\* The SDK opens the session: onConnect (setPhase("connected")), status
\* connected, and the promise of startSession resolves.
SdkConnect ==
    /\ conversation.status = "connecting"
    /\ conversation.started = "pending"
    /\ phase' = "connected"
    /\ conversation' = [conversation EXCEPT !.status = "connected",
                                            !.started = "resolved"]
    /\ UNCHANGED <<props, err, effectStatus, startAt, stopAt>>
    /\ UNCHANGED <<keyVars, extractVars, queryVars, chunkVars, cleanVars, env, serial, slugs,
                   faults, shared, pc, req, chunks, vectors, batch, attempt, resp, log>>

\* The SDK fails to open the session: status disconnected, and the promise
\* of startSession rejects.
SdkConnectFails ==
    /\ conversation.status = "connecting"
    /\ conversation.started = "pending"
    /\ conversation' = [conversation EXCEPT !.status = "disconnected",
                                            !.started = "rejected"]
    /\ UNCHANGED <<props, phase, err, effectStatus, startAt, stopAt>>
    /\ UNCHANGED <<keyVars, extractVars, queryVars, chunkVars, cleanVars, env, serial, slugs,
                   faults, shared, pc, req, chunks, vectors, batch, attempt, resp, log>>

\* The session ends from the other side (the agent hangs up, the socket
\* closes): onDisconnect (setPhase("ready")) and status disconnected.
SdkDisconnect ==
    /\ conversation.status = "connected"
    /\ phase' = "ready"
    /\ conversation' = [conversation EXCEPT !.status = "disconnected"]
    /\ UNCHANGED <<props, err, effectStatus, startAt, stopAt>>
    /\ UNCHANGED <<keyVars, extractVars, queryVars, chunkVars, cleanVars, env, serial, slugs,
                   faults, shared, pc, req, chunks, vectors, batch, attempt, resp, log>>

\* onError of the SDK during a session: setErr(msg).
SdkError ==
    /\ conversation.status \in {"connecting", "connected"}
    /\ err' = "msg"
    /\ UNCHANGED <<props, phase, conversation, effectStatus, startAt, stopAt>>
    /\ UNCHANGED <<keyVars, extractVars, queryVars, chunkVars, cleanVars, env, serial, slugs,
                   faults, shared, pc, req, chunks, vectors, batch, attempt, resp, log>>

\* start() after `await startSession(...)`: setPhase("connected") when the
\* promise resolved, the catch when it rejected.
StartResumes ==
    /\ startAt = "startSession"
    /\ conversation.started \in {"resolved", "rejected"}
    /\ IF conversation.started = "resolved"
         THEN phase' = "connected" /\ startAt' = "idle" /\ err' = err
         ELSE StartCatch
    /\ conversation' = [conversation EXCEPT !.started = "none"]
    /\ UNCHANGED <<props, effectStatus, stopAt>>
    /\ UNCHANGED <<keyVars, extractVars, queryVars, chunkVars, cleanVars, env, serial, slugs,
                   faults, shared, pc, req, chunks, vectors, batch, attempt, resp, log>>

\* A click on the stop button, which the inline UI shows when the phase is
\* connecting or connected and the full UI enables when the status is
\* connected.  stop() calls endSession and awaits it.
StopClick ==
    /\ stopAt = "idle"
    /\ IF props.inlineMode THEN phase \in {"connecting", "connected"}
       ELSE conversation.status = "connected"
    /\ stopAt' = "endSession"
    /\ conversation' = [conversation EXCEPT !.ended = "pending"]
    /\ UNCHANGED <<props, phase, err, effectStatus, startAt>>
    /\ UNCHANGED <<keyVars, extractVars, queryVars, chunkVars, cleanVars, env, serial, slugs,
                   faults, shared, pc, req, chunks, vectors, batch, attempt, resp, log>>

\* endSession of the SDK: an open session is closed (onDisconnect, status
\* disconnected) and the promise resolves; with no open session there is
\* nothing to close; or the promise rejects.
SdkEndSession ==
    /\ conversation.ended = "pending"
    /\ \/ /\ conversation.status = "connected"
          /\ phase' = "ready"
          /\ conversation' = [conversation EXCEPT !.status = "disconnected",
                                                  !.ended = "resolved"]
       \/ /\ conversation.status # "connected"
          /\ conversation' = [conversation EXCEPT !.ended = "resolved"]
          /\ UNCHANGED phase
       \/ /\ conversation' = [conversation EXCEPT !.ended = "rejected"]
          /\ UNCHANGED phase
    /\ UNCHANGED <<props, err, effectStatus, startAt, stopAt>>
    /\ UNCHANGED <<keyVars, extractVars, queryVars, chunkVars, cleanVars, env, serial, slugs,
                   faults, shared, pc, req, chunks, vectors, batch, attempt, resp, log>>

\* stop() after `await endSession()`: setPhase("ready") when the promise
\* resolved, setErr(msg) in the catch when it rejected.
StopResumes ==
    /\ stopAt = "endSession"
    /\ conversation.ended \in {"resolved", "rejected"}
    /\ IF conversation.ended = "resolved"
         THEN phase' = "ready" /\ err' = err
         ELSE err' = "msg" /\ phase' = phase
    /\ stopAt' = "idle"
    /\ conversation' = [conversation EXCEPT !.ended = "none"]
    /\ UNCHANGED <<props, effectStatus, startAt>>
    /\ UNCHANGED <<keyVars, extractVars, queryVars, chunkVars, cleanVars, env, serial, slugs,
                   faults, shared, pc, req, chunks, vectors, batch, attempt, resp, log>>

\* The namespace of run r as the pair of ids it is built from: on the ids
\* of Docs and Vers, which have no colon, the string determines the pair.
Namespace(r) == <<req[r].document_id, req[r].doc_version_id>>

\* A namespace with no record.
EmptyNs == {}

\* The records of a namespace, by index: the run that wrote record
\* `${document_id}-${i}`, 0 when the namespace has no such record.
Records(ranges) ==
    [i \in Idx |->
       IF \E s \in ranges : s.lo <= i /\ i < s.hi
         THEN (CHOOSE s \in ranges : s.lo <= i /\ i < s.hi).run
         ELSE 0]

\* The inverse of Records: the maximal ranges of indexes with one owner.
Ranges(f) ==
    LET starts == {a \in Idx : f[a] # 0 /\ (a = 0 \/ f[a - 1] # f[a])}
        ends(a) == {b \in (a + 1)..(UPSERT_BATCH + 1) : b \notin Idx \/ f[b] # f[a]}
    IN {[lo |-> a,
         hi |-> CHOOSE b \in ends(a) : \A c \in ends(a) : b <= c,
         run |-> f[a]] : a \in starts}

\* The relational store and the vector index with nothing in them.
EmptyStores ==
    /\ documents = {}
    /\ doc_versions = [v \in Vers |-> [status |-> "none", document_id |-> "none"]]
    /\ share_surfaces = [d \in Docs |-> "none"]
    /\ page_slug = [d \in Docs |-> "none"]
    /\ doc_sections = {}
    /\ jobs = [k \in Docs \X Vers |-> [status |-> "none", error |-> ""]]
    /\ ns = [k \in Docs \X Vers |-> EmptyNs]

\* No ingest request has arrived.
IdleRuns ==
    /\ pc = [r \in Runs |-> "idle"]
    /\ req = [r \in Runs |-> NoReq]
    /\ chunks = [r \in Runs |-> 0]
    /\ vectors = [r \in Runs |-> <<>>]
    /\ batch = [r \in Runs |-> 0]
    /\ attempt = [r \in Runs |-> 0]
    /\ resp = [r \in Runs |-> NoResp]
    /\ log = [r \in Runs |-> NoLog]
    /\ file = [r \in Runs |-> NoFile]

NoQReq == [endpoint |-> "none", header |-> "absent", body |-> "none",
           document_id |-> "none", doc_version_id |-> "none", slug |-> "none",
           topK |-> [type |-> "undefined"]]
NoTarget == <<"none", "none">>
NoContexts == [length |-> 0, tags |-> {}]
NoQResp == [status |-> 0, error |-> "", text |-> "", citations |-> <<>>]

\* No retrieval / answer request has arrived.
IdleQuery ==
    /\ qpc = "idle"
    /\ qreq = NoQReq
    /\ target = NoTarget
    /\ topK = 0
    /\ matches = <<>>
    /\ contexts = NoContexts
    /\ qlog = <<>>
    /\ qresp = NoQResp

\* flush is not in its while loop.
NoLoop == [s |-> 0, start |-> 0, maxChars |-> 0, overlap |-> 0, pushed |-> 0,
          pc |-> "idle"]

\* smartChunk is not running.
IdleChunk ==
    /\ text = <<>>
    /\ at = 1
    /\ buf = <<>>
    /\ out = <<>>
    /\ cpc = "idle"
    /\ loop = NoLoop

\* No text is being cleaned.
IdleClean ==
    /\ raw = <<>>
    /\ sanitized = <<>>
    /\ cleaned = <<>>
    /\ text_snippet = <<>>
    /\ spc = "idle"

InitRows ==
    /\ env \in SUBSET EnvNames
    /\ EmptyStores
    /\ bucket = TextObjects
    /\ slugs = {}
    /\ IdleWidget
    /\ IdleKeys
    /\ IdleRuns
    /\ secret = FALSE
    /\ IdleQuery
    /\ IdleChunk
    /\ IdleClean

\* The run returns NextResponse.json({error}, {status}).
Return(r, status, error) ==
    /\ pc' = [pc EXCEPT ![r] = "done"]
    /\ resp' = [resp EXCEPT ![r] = [status |-> status, error |-> error,
                                    chunks |-> 0]]

\* A fatal stage: `await markFailed(document_id, doc_version_id, msg)` and
\* then `return NextResponse.json({error: msg}, {status})`.  The response is
\* held in resp until markFailed has run.
Fatal(r, status, error) ==
    /\ pc' = [pc EXCEPT ![r] = "markFailed_status"]
    /\ resp' = [resp EXCEPT ![r] = [status |-> status, error |-> error,
                                    chunks |-> 0]]

\* ---------------------------------------------------------------- actions
\* POST up to the first relational write: parse the body, check objectPath,
\* build the configuration and the clients, fix the ids.  Requests are
\* numbered in the order they arrive.
Receive(r) ==
    /\ pc[r] = "idle"
    /\ \A q \in Runs : q < r => pc[q] # "idle"
    /\ serial => \A q \in Runs : pc[q] \in {"idle", "done"}
    /\ \/ /\ req' = [req EXCEPT ![r].body = "invalid json"]
          /\ Return(r, 500, "invalid json")
       \/ /\ req' = [req EXCEPT ![r].body = "no objectPath"]
          /\ Return(r, 400, "objectPath required")
       \/ \E d \in Usable(DocOrder, UsedDocs), v \in Usable(VerOrder, UsedVers),
             requestedSlug \in slugs \cup {"none"} :
            /\ req' = [req EXCEPT ![r] = [body |-> "ok", document_id |-> d,
                                          doc_version_id |-> v,
                                          slug |-> requestedSlug]]
            /\ IF ConfigError # ""
                 THEN Return(r, 500, ConfigError)
                 ELSE /\ pc' = [pc EXCEPT ![r] = "documents"]
                      /\ UNCHANGED resp
    /\ UNCHANGED <<keyVars, widgetVars, extractVars, queryVars, chunkVars, cleanVars, env, serial, slugs, faults, shared, chunks, vectors, batch, attempt, log>>

\* Run r calls an external service other than the relational store; cause is
\* the outcome when it is one that a run cannot survive, "none" otherwise.
Called(r, name, cause) ==
    log' = [log EXCEPT ![r].calls = @ \cup {name},
                       ![r].cause = IF cause = "none" THEN @ ELSE cause]

\* One relational write of run r: it is issued, and the store either applies
\* it or returns {error}; the caller logs a warning (or, in markFailed,
\* ignores the result) and goes on.
Issue(r, name, ok) ==
    /\ ok \/ faults > 0
    /\ faults' = IF ok THEN faults ELSE faults - 1
    /\ log' = [log EXCEPT ![r].calls = @ \cup {name},
                          ![r].failed = IF ok THEN @ ELSE @ \cup {name}]

\* supabaseAdmin.from("documents").upsert({id: document_id, ...}).  The first
\* use of supabaseAdmin: getAdmin throws into the outer catch when the
\* Supabase env is missing.
UpsertDocuments(r) ==
    /\ pc[r] = "documents"
    /\ IF getAdminThrows
         THEN /\ Return(r, 500, "Missing Supabase env")
              /\ UNCHANGED <<documents, log, faults>>
         ELSE /\ \E ok \in BOOLEAN :
                   /\ documents' = IF ok THEN documents \cup {req[r].document_id}
                                         ELSE documents
                   /\ Issue(r, "documents", ok)
              /\ pc' = [pc EXCEPT ![r] = "doc_versions"]
              /\ UNCHANGED resp
    /\ UNCHANGED <<keyVars, widgetVars, extractVars, queryVars, chunkVars, cleanVars, env, serial, slugs, doc_versions, share_surfaces, page_slug, doc_sections, jobs,
                   ns, req, chunks, vectors, batch, attempt>>

\* supabaseAdmin.from("doc_versions").upsert({id, document_id, status: "processing"}).
UpsertDocVersions(r) ==
    /\ pc[r] = "doc_versions"
    /\ \E ok \in BOOLEAN :
         /\ doc_versions' =
              IF ok THEN [doc_versions EXCEPT ![req[r].doc_version_id] =
                            [status |-> "processing",
                             document_id |-> req[r].document_id]]
                    ELSE doc_versions
         /\ Issue(r, "doc_versions", ok)
    /\ pc' = [pc EXCEPT ![r] = "share_surfaces"]
    /\ UNCHANGED <<keyVars, widgetVars, extractVars, queryVars, chunkVars, cleanVars, env, serial, slugs, documents, share_surfaces, page_slug, doc_sections, jobs, ns,
                   req, chunks, vectors, batch, attempt, resp>>

\* page_slug = requestedSlug || slugify(title || file name || "document") +
\* "-" + document_id.slice(0, 8).  The ids of the model are shorter than 8
\* characters, so the suffix is the whole id; the derived slug of document d
\* is written d (one title per document).
PageSlug(r) ==
    IF req[r].slug # "none" THEN req[r].slug ELSE req[r].document_id

\* supabaseAdmin.from("share_surfaces").upsert({document_id, live_version_id,
\* page_slug, ...}, {onConflict: "document_id"}).
UpsertShareSurfaces(r) ==
    /\ pc[r] = "share_surfaces"
    /\ \E ok \in BOOLEAN :
         /\ share_surfaces' =
              IF ok THEN [share_surfaces EXCEPT ![req[r].document_id] =
                            req[r].doc_version_id]
                    ELSE share_surfaces
         /\ page_slug' =
              IF ok THEN [page_slug EXCEPT ![req[r].document_id] = PageSlug(r)]
                    ELSE page_slug
         /\ Issue(r, "share_surfaces", ok)
    /\ pc' = [pc EXCEPT ![r] = "download"]
    /\ UNCHANGED <<keyVars, widgetVars, extractVars, queryVars, chunkVars, cleanVars, env, serial, slugs, documents, doc_versions, doc_sections, jobs, ns,
                   req, chunks, vectors, batch, attempt, resp>>

\* Download answering a failed download with status 400.
DownloadFailure400(r) ==
    /\ pc[r] = "download"
    /\ \E ok \in BOOLEAN :
         IF ok
           THEN /\ pc' = [pc EXCEPT ![r] = "extractText"]
                /\ \E o \in bucket : file' = [file EXCEPT ![r] = o]
                /\ Called(r, "download", "none")
                /\ UNCHANGED resp
           ELSE /\ Fatal(r, 400, "Download failed")
                /\ Called(r, "download", "download")
                /\ UNCHANGED file
    /\ UNCHANGED <<keyVars, widgetVars, bucket, queryVars, chunkVars, cleanVars, env, serial, slugs, faults, shared, req, chunks, vectors, batch, attempt>>

\* supabaseAdmin.storage.from(bucket).download(path): dl.error or no data is
\* fatal.
Download(r) ==
    /\ pc[r] = "download"
    /\ \E ok \in BOOLEAN :
         IF ok
           THEN /\ pc' = [pc EXCEPT ![r] = "extractText"]
                /\ \E o \in bucket : file' = [file EXCEPT ![r] = o]
                /\ Called(r, "download", "none")
                /\ UNCHANGED resp
           ELSE /\ Fatal(r, 500, "Download failed")
                /\ Called(r, "download", "download")
                /\ UNCHANGED file
    /\ UNCHANGED <<keyVars, widgetVars, bucket, queryVars, chunkVars, cleanVars, env, serial, slugs, faults, shared, req, chunks, vectors, batch, attempt>>

\* extractText(ext, arrayBuf): the length of the text it returns and the
\* extractor the text is from.  A pdf goes to pdf-parse, whose text is
\* returned when it is longer than 20 characters, then to pdfjs-dist, whose
\* text is returned whatever its length; a docx goes to mammoth; an
\* extractor that throws is caught and logged, and control falls through
\* the `if` blocks of the other formats to the final TextDecoder.
extractText(ext, arrayBuf) ==
    LET decode == [len |-> arrayBuf.plain, by |-> "TextDecoder"]
    IN IF ext = "pdf"
         THEN IF arrayBuf.fast # Throws /\ arrayBuf.fast > TRIVIAL_LENGTH
                THEN [len |-> arrayBuf.fast, by |-> "pdf-parse"]
              ELSE IF arrayBuf.pages # Throws
                THEN [len |-> arrayBuf.pages, by |-> "pdfjs-dist"]
              ELSE decode
       ELSE IF ext = "docx"
         THEN IF arrayBuf.docx # Throws
                THEN [len |-> arrayBuf.docx, by |-> "mammoth"]
                ELSE decode
       ELSE IF ext \in {"html", "htm"}
         THEN [len |-> arrayBuf.html, by |-> "stripHtml"]
       ELSE decode

\* rawText = await extractText(ext, arrayBuf).catch(() => ""): empty text is
\* fatal with status 400.
ExtractText(r) ==
    /\ pc[r] = "extractText"
    /\ LET rawText == IF extractText(file[r].ext, file[r]).len = 0 THEN "" ELSE "text"
       IN
         /\ log' = [log EXCEPT ![r].cause = IF rawText = "" THEN "extract" ELSE @]
         /\ IF rawText = ""
              THEN Fatal(r, 400, "No text extracted (unsupported or empty)")
              ELSE /\ pc' = [pc EXCEPT ![r] = "smartChunk"]
                   /\ UNCHANGED resp
    /\ UNCHANGED <<keyVars, widgetVars, extractVars, queryVars, chunkVars, cleanVars, env, serial, slugs, faults, shared, req, chunks, vectors, batch, attempt>>

\* SmartChunk without the `if (!chunks.length)` check: embedChunks of no
\* chunk makes no call and returns no vector.
SmartChunkNoLengthCheck(r) ==
    /\ pc[r] = "smartChunk"
    /\ \E n \in ChunkCounts :
         /\ chunks' = [chunks EXCEPT ![r] = n]
         /\ log' = [log EXCEPT ![r].cause = IF n = 0 THEN "chunk" ELSE @]
         /\ pc' = [pc EXCEPT ![r] = IF n = 0 THEN "dimCheck" ELSE "embedChunks"]
         /\ UNCHANGED resp
    /\ UNCHANGED <<keyVars, widgetVars, extractVars, queryVars, chunkVars, cleanVars, env, serial, slugs, faults, shared, req, vectors, batch, attempt>>

\* scrubUnicode, normalizeText, smartChunk: zero chunks is fatal with
\* status 400.
SmartChunk(r) ==
    /\ pc[r] = "smartChunk"
    /\ \E n \in ChunkCounts :
         /\ chunks' = [chunks EXCEPT ![r] = n]
         /\ log' = [log EXCEPT ![r].cause = IF n = 0 THEN "chunk" ELSE @]
         /\ IF n = 0
              THEN Fatal(r, 400, "No chunks produced")
              ELSE /\ pc' = [pc EXCEPT ![r] = "embedChunks"]
                   /\ UNCHANGED resp
    /\ UNCHANGED <<keyVars, widgetVars, extractVars, queryVars, chunkVars, cleanVars, env, serial, slugs, faults, shared, req, vectors, batch, attempt>>

\* vecs with the snippet of entry i cut from inputs[i], not from b[i].
vecsSnippetOfInputs(lo, n, dim) == [n |-> n, dim |-> dim, emb |-> lo, snip |-> 0]

\* emb.data.map((d, i) => ({values: d.embedding, path, snippet: b[i].slice(0,
\* 500)})) for the batch b of the n inputs from index lo on: entry i has the
\* embedding of chunk lo + i (emb.data is in the order of the inputs) and
\* the snippet of chunk lo + i.
vecs(lo, n, dim) == [n |-> n, dim |-> dim, emb |-> lo, snip |-> lo]

\* EmbedAttempt with the loop of withRetry running while i <= tries.
EmbedAttemptExtraTry(r) ==
    /\ pc[r] = "embedChunks"
    /\ LET lo == chunkArrayLo(batch[r], EMBED_BATCH)
           n == chunkArrayHi(batch[r], chunks[r], EMBED_BATCH) - lo
           last == batch[r] + 1 = chunkArrayLen(chunks[r], EMBED_BATCH)
       IN \/ \E dim \in Dims :
               /\ vectors' = [vectors EXCEPT ![r] =
                                Append(@, vecs(lo, n, dim))]
               /\ Called(r, "embed",
                         IF last /\ \E k \in 1..Len(vectors'[r]) :
                                      vectors'[r][k].dim # PINECONE_DIM
                           THEN "dimension" ELSE "none")
               /\ attempt' = [attempt EXCEPT ![r] = 0]
               /\ batch' = [batch EXCEPT ![r] = IF last THEN 0 ELSE @ + 1]
               /\ pc' = [pc EXCEPT ![r] = IF last THEN "dimCheck" ELSE @]
               /\ UNCHANGED resp
          \/ /\ attempt[r] < TRIES
             /\ attempt' = [attempt EXCEPT ![r] = @ + 1]
             /\ Called(r, "embed", "none")
             /\ UNCHANGED <<vectors, batch, pc, resp>>
          \/ /\ attempt[r] >= TRIES
             /\ Return(r, 500, "embedding failed")
             /\ Called(r, "embed", "embed")
             /\ vectors' = [vectors EXCEPT ![r] = <<>>]
             /\ batch' = [batch EXCEPT ![r] = 0]
             /\ attempt' = [attempt EXCEPT ![r] = @ + 1]
    /\ UNCHANGED <<keyVars, widgetVars, extractVars, queryVars, chunkVars, cleanVars, env, serial, slugs, faults, shared, req, chunks>>

\* One iteration of withRetry's loop inside embedChunks' loop over the
\* batches of 96: a call of openai.embeddings.create for batch[r].  A
\* rejection is retried after the backoff while i + 1 < tries; the last one
\* is rethrown with i = tries, embedChunks rejects, POST's .catch throws
\* "embedding failed" and the outer catch answers 500.  A resolved call
\* appends one vector per input of the batch (emb.data[i] is the embedding of
\* input b[i]), of the length the service returned, with the snippet b[i].
EmbedAttempt(r) ==
    /\ pc[r] = "embedChunks"
    /\ LET lo == chunkArrayLo(batch[r], EMBED_BATCH)
           n == chunkArrayHi(batch[r], chunks[r], EMBED_BATCH) - lo
           last == batch[r] + 1 = chunkArrayLen(chunks[r], EMBED_BATCH)
       IN \/ \E dim \in Dims :
               /\ vectors' = [vectors EXCEPT ![r] =
                                Append(@, vecs(lo, n, dim))]
               /\ Called(r, "embed",
                         IF last /\ \E k \in 1..Len(vectors'[r]) :
                                      vectors'[r][k].dim # PINECONE_DIM
                           THEN "dimension" ELSE "none")
               /\ attempt' = [attempt EXCEPT ![r] = 0]
               /\ batch' = [batch EXCEPT ![r] = IF last THEN 0 ELSE @ + 1]
               /\ pc' = [pc EXCEPT ![r] = IF last THEN "dimCheck" ELSE @]
               /\ UNCHANGED resp
          \/ /\ attempt[r] + 1 < TRIES
             /\ attempt' = [attempt EXCEPT ![r] = @ + 1]
             /\ Called(r, "embed", "none")
             /\ UNCHANGED <<vectors, batch, pc, resp>>
          \/ /\ attempt[r] + 1 >= TRIES
             /\ Return(r, 500, "embedding failed")
             /\ Called(r, "embed", "embed")
             /\ vectors' = [vectors EXCEPT ![r] = <<>>]
             /\ batch' = [batch EXCEPT ![r] = 0]
             /\ attempt' = [attempt EXCEPT ![r] = @ + 1]
    /\ UNCHANGED <<keyVars, widgetVars, extractVars, queryVars, chunkVars, cleanVars, env, serial, slugs, faults, shared, req, chunks>>

\* vectors.length of a run.
VectorCount(r) ==
    LET RECURSIVE Sum(_)
        Sum(k) == IF k = 0 THEN 0 ELSE vectors[r][k].n + Sum(k - 1)
    IN Sum(Len(vectors[r]))

\* The check made on vectors[0] alone, the vector the message names.
DimMismatchFirstOnly(r) ==
    Len(vectors[r]) > 0 /\ vectors[r][1].dim # PINECONE_DIM

\* vectors.some((v) => v.values.length !== PINECONE_DIM)
DimMismatch(r) ==
    \E k \in 1..Len(vectors[r]) : vectors[r][k].dim # PINECONE_DIM

\* The dimension check after embedChunks: a mismatch is fatal with status 500.
DimCheck(r) ==
    /\ pc[r] = "dimCheck"
    /\ IF DimMismatch(r)
         THEN Fatal(r, 500, "Embedding dim != Pinecone index dim")
         ELSE /\ pc' = [pc EXCEPT ![r] = "deleteAll"]
              /\ UNCHANGED resp
    /\ UNCHANGED <<keyVars, widgetVars, extractVars, queryVars, chunkVars, cleanVars, env, serial, slugs, faults, shared, req, chunks, vectors, batch, attempt, log>>

\* DeleteAll with a deleteAll that resolves without deleting anything.
DeleteAllKeepsRecords(r) ==
    /\ pc[r] = "deleteAll"
    /\ \E ok \in BOOLEAN :
         /\ ns' = ns
         /\ log' = [log EXCEPT ![r].calls = @ \cup {"deleteAll"},
                               ![r].failed = IF ok THEN @ ELSE @ \cup {"deleteAll"}]
    /\ pc' = [pc EXCEPT ![r] = IF chunkArrayLen(VectorCount(r), UPSERT_BATCH) = 0
                                 THEN "doc_sections" ELSE "upsert"]
    /\ UNCHANGED <<keyVars, widgetVars, extractVars, queryVars, chunkVars, cleanVars, env, serial, slugs, faults, documents, doc_versions, share_surfaces, page_slug,
                   doc_sections, jobs, req, chunks, vectors, batch, attempt, resp>>

\* index.namespace(namespace).deleteAll(): a rejection is only warned about.
\* The loop over chunkArray(records, 150) follows; it has no iteration when
\* there is no record.
DeleteAll(r) ==
    /\ pc[r] = "deleteAll"
    /\ \E ok \in BOOLEAN :
         /\ ns' = IF ok THEN [ns EXCEPT ![Namespace(r)] = EmptyNs] ELSE ns
         /\ log' = [log EXCEPT ![r].calls = @ \cup {"deleteAll"},
                               ![r].failed = IF ok THEN @ ELSE @ \cup {"deleteAll"}]
    /\ pc' = [pc EXCEPT ![r] = IF chunkArrayLen(VectorCount(r), UPSERT_BATCH) = 0
                                 THEN "doc_sections" ELSE "upsert"]
    /\ UNCHANGED <<keyVars, widgetVars, extractVars, queryVars, chunkVars, cleanVars, env, serial, slugs, faults, documents, doc_versions, share_surfaces, page_slug,
                   doc_sections, jobs, req, chunks, vectors, batch, attempt, resp>>

\* Upsert with the record ids numbered within each batch.
UpsertBatchLocalIds(r) ==
    /\ pc[r] = "upsert"
    /\ LET lo == chunkArrayLo(batch[r], UPSERT_BATCH)
           hi == chunkArrayHi(batch[r], VectorCount(r), UPSERT_BATCH)
           last == batch[r] + 1 = chunkArrayLen(VectorCount(r), UPSERT_BATCH)
       IN \/ /\ ns' = [ns EXCEPT ![Namespace(r)] =
                         Ranges([i \in Idx |-> IF i < hi - lo THEN r
                                                ELSE Records(@)[i]])]
             /\ batch' = [batch EXCEPT ![r] = IF last THEN 0 ELSE @ + 1]
             /\ pc' = [pc EXCEPT ![r] = IF last THEN "doc_sections" ELSE @]
             /\ Called(r, "upsert", "none")
             /\ UNCHANGED resp
          \/ /\ Fatal(r, 500, "pinecone upsert failed")
             /\ Called(r, "upsert", "upsert")
             /\ UNCHANGED <<ns, batch>>
    /\ UNCHANGED <<keyVars, widgetVars, extractVars, queryVars, chunkVars, cleanVars, env, serial, slugs, faults, documents, doc_versions, share_surfaces, page_slug,
                   doc_sections, jobs, req, chunks, vectors, attempt>>

\* Upsert with a rejected batch only logged and the loop going on.
UpsertContinueOnError(r) ==
    /\ pc[r] = "upsert"
    /\ LET lo == chunkArrayLo(batch[r], UPSERT_BATCH)
           hi == chunkArrayHi(batch[r], VectorCount(r), UPSERT_BATCH)
           last == batch[r] + 1 = chunkArrayLen(VectorCount(r), UPSERT_BATCH)
       IN /\ \/ ns' = [ns EXCEPT ![Namespace(r)] =
                         Ranges([i \in Idx |-> IF lo <= i /\ i < hi THEN r
                                                ELSE Records(@)[i]])]
             \/ UNCHANGED ns
          /\ batch' = [batch EXCEPT ![r] = IF last THEN 0 ELSE @ + 1]
          /\ pc' = [pc EXCEPT ![r] = IF last THEN "doc_sections" ELSE @]
          /\ Called(r, "upsert", "none")
          /\ UNCHANGED resp
    /\ UNCHANGED <<keyVars, widgetVars, extractVars, queryVars, chunkVars, cleanVars, env, serial, slugs, faults, documents, doc_versions, share_surfaces, page_slug,
                   doc_sections, jobs, req, chunks, vectors, attempt>>

\* index.namespace(namespace).upsert(batch) for batch[r] of
\* chunkArray(records, 150), records[i].id = `${document_id}-${i}`.  A
\* rejection leaves the loop: markFailed, status 500.
Upsert(r) ==
    /\ pc[r] = "upsert"
    /\ LET lo == chunkArrayLo(batch[r], UPSERT_BATCH)
           hi == chunkArrayHi(batch[r], VectorCount(r), UPSERT_BATCH)
           last == batch[r] + 1 = chunkArrayLen(VectorCount(r), UPSERT_BATCH)
       IN \/ /\ ns' = [ns EXCEPT ![Namespace(r)] =
                         Ranges([i \in Idx |-> IF lo <= i /\ i < hi THEN r
                                                ELSE Records(@)[i]])]
             /\ batch' = [batch EXCEPT ![r] = IF last THEN 0 ELSE @ + 1]
             /\ pc' = [pc EXCEPT ![r] = IF last THEN "doc_sections" ELSE @]
             /\ Called(r, "upsert", "none")
             /\ UNCHANGED resp
          \/ /\ Fatal(r, 500, "pinecone upsert failed")
             /\ Called(r, "upsert", "upsert")
             /\ UNCHANGED <<ns, batch>>
    /\ UNCHANGED <<keyVars, widgetVars, extractVars, queryVars, chunkVars, cleanVars, env, serial, slugs, faults, documents, doc_versions, share_surfaces, page_slug,
                   doc_sections, jobs, req, chunks, vectors, attempt>>

\* InsertSections with a failed insert treated as fatal.
InsertSectionsFatal(r) ==
    /\ pc[r] = "doc_sections"
    /\ \E ok \in BOOLEAN :
         /\ doc_sections' =
              IF ok THEN doc_sections \cup
                           {[doc_version_id |-> req[r].doc_version_id,
                             rows |-> chunks[r], run |-> r]}
                    ELSE doc_sections
         /\ Issue(r, "doc_sections", ok)
         /\ IF ok THEN pc' = [pc EXCEPT ![r] = "ready"] /\ UNCHANGED resp
                  ELSE Fatal(r, 500, "doc_sections insert failed")
    /\ UNCHANGED <<keyVars, widgetVars, extractVars, queryVars, chunkVars, cleanVars, env, serial, slugs, documents, doc_versions, share_surfaces, page_slug, jobs, ns,
                   req, chunks, vectors, batch, attempt>>

\* supabaseAdmin.from("doc_sections").insert(chunks.map(...)): one row per
\* chunk, idx 0..chunks.length-1; an insert of n rows is kept as one element.
InsertSections(r) ==
    /\ pc[r] = "doc_sections"
    /\ \E ok \in BOOLEAN :
         /\ doc_sections' =
              IF ok THEN doc_sections \cup
                           {[doc_version_id |-> req[r].doc_version_id,
                             rows |-> chunks[r], run |-> r]}
                    ELSE doc_sections
         /\ Issue(r, "doc_sections", ok)
    /\ pc' = [pc EXCEPT ![r] = "ready"]
    /\ UNCHANGED <<keyVars, widgetVars, extractVars, queryVars, chunkVars, cleanVars, env, serial, slugs, documents, doc_versions, share_surfaces, page_slug, jobs, ns,
                   req, chunks, vectors, batch, attempt, resp>>

\* .from("doc_versions").update({status}).eq("id", doc_version_id): changes
\* the row when there is one.
UpdateStatus(id, status) ==
    IF doc_versions[id].status = "none"
      THEN doc_versions
      ELSE [doc_versions EXCEPT ![id].status = status]

\* The finalize step: update doc_versions to `ready`.
UpdateReady(r) ==
    /\ pc[r] = "ready"
    /\ \E ok \in BOOLEAN :
         /\ doc_versions' = IF ok THEN UpdateStatus(req[r].doc_version_id, "ready")
                                  ELSE doc_versions
         /\ Issue(r, "ready", ok)
    /\ pc' = [pc EXCEPT ![r] = "succeeded"]
    /\ UNCHANGED <<keyVars, widgetVars, extractVars, queryVars, chunkVars, cleanVars, env, serial, slugs, documents, share_surfaces, page_slug, doc_sections, jobs, ns,
                   req, chunks, vectors, batch, attempt, resp>>

\* The finalize step: upsert the succeeded job, then return 200 with
\* chunks: chunks.length.
UpsertJobSucceeded(r) ==
    /\ pc[r] = "succeeded"
    /\ \E ok \in BOOLEAN :
         /\ jobs' = IF ok THEN [jobs EXCEPT ![Namespace(r)] =
                                  [status |-> "succeeded", error |-> ""]]
                          ELSE jobs
         /\ Issue(r, "succeeded", ok)
    /\ pc' = [pc EXCEPT ![r] = "done"]
    /\ resp' = [resp EXCEPT ![r] = [status |-> 200, error |-> "",
                                    chunks |-> chunks[r]]]
    /\ vectors' = [vectors EXCEPT ![r] = <<>>]
    /\ UNCHANGED <<keyVars, widgetVars, extractVars, queryVars, chunkVars, cleanVars, env, serial, slugs, documents, doc_versions, share_surfaces, page_slug,
                   doc_sections, ns, req, chunks, batch, attempt>>

\* markFailed, first write: update doc_versions to `error`.
MarkFailedStatus(r) ==
    /\ pc[r] = "markFailed_status"
    /\ \E ok \in BOOLEAN :
         /\ doc_versions' = IF ok THEN UpdateStatus(req[r].doc_version_id, "error")
                                  ELSE doc_versions
         /\ Issue(r, "error", ok)
    /\ pc' = [pc EXCEPT ![r] = "markFailed_job"]
    /\ UNCHANGED <<keyVars, widgetVars, extractVars, queryVars, chunkVars, cleanVars, env, serial, slugs, documents, share_surfaces, page_slug, doc_sections, jobs, ns,
                   req, chunks, vectors, batch, attempt, resp>>

\* markFailed with a compensating rollback: the failed job is recorded, the
\* records of the run's namespace are deleted and the share surface is
\* detached from the version.
MarkFailedJobRollback(r) ==
    /\ pc[r] = "markFailed_job"
    /\ \E ok \in BOOLEAN :
         /\ jobs' = IF ok THEN [jobs EXCEPT ![Namespace(r)] =
                                  [status |-> "failed", error |-> resp[r].error]]
                          ELSE jobs
         /\ Issue(r, "failed", ok)
    /\ ns' = [ns EXCEPT ![Namespace(r)] = EmptyNs]
    /\ share_surfaces' = [share_surfaces EXCEPT ![req[r].document_id] = "none"]
    /\ pc' = [pc EXCEPT ![r] = "done"]
    /\ vectors' = [vectors EXCEPT ![r] = <<>>]
    /\ batch' = [batch EXCEPT ![r] = 0]
    /\ UNCHANGED <<keyVars, widgetVars, extractVars, queryVars, chunkVars, cleanVars, env, serial, slugs, documents, doc_versions,
                   page_slug, doc_sections, req, chunks, attempt, resp>>

\* markFailed followed by no return in the catch of the upsert loop: the run
\* goes on with the section rows and the finalize writes.
MarkFailedJobNoReturn(r) ==
    /\ pc[r] = "markFailed_job"
    /\ \E ok \in BOOLEAN :
         /\ jobs' = IF ok THEN [jobs EXCEPT ![Namespace(r)] =
                                  [status |-> "failed", error |-> resp[r].error]]
                          ELSE jobs
         /\ Issue(r, "failed", ok)
    /\ pc' = [pc EXCEPT ![r] = IF log[r].cause = "upsert" THEN "doc_sections"
                                                          ELSE "done"]
    /\ vectors' = [vectors EXCEPT ![r] = <<>>]
    /\ batch' = [batch EXCEPT ![r] = 0]
    /\ UNCHANGED <<keyVars, widgetVars, extractVars, queryVars, chunkVars, cleanVars, env, serial, slugs, documents, doc_versions, share_surfaces, page_slug,
                   doc_sections, ns, req, chunks, attempt, resp>>

\* markFailed, second write: upsert the failed job with the error message;
\* then the stage returns its failure response.
MarkFailedJob(r) ==
    /\ pc[r] = "markFailed_job"
    /\ \E ok \in BOOLEAN :
         /\ jobs' = IF ok THEN [jobs EXCEPT ![Namespace(r)] =
                                  [status |-> "failed", error |-> resp[r].error]]
                          ELSE jobs
         /\ Issue(r, "failed", ok)
    /\ pc' = [pc EXCEPT ![r] = "done"]
    /\ vectors' = [vectors EXCEPT ![r] = <<>>]
    /\ batch' = [batch EXCEPT ![r] = 0]
    /\ UNCHANGED <<keyVars, widgetVars, extractVars, queryVars, chunkVars, cleanVars, env, serial, slugs, documents, doc_versions, share_surfaces, page_slug,
                   doc_sections, ns, req, chunks, attempt, resp>>

\* An awaited best-effort write of POST rejects instead of resolving with
\* {error}: the Error goes to the outer catch, which answers 500 with its
\* message.
WriteRejects(r) ==
    /\ pc[r] \in BestEffortWrites
    /\ ~getAdminThrows
    /\ log' = [log EXCEPT ![r].calls = @ \cup {pc[r]}, ![r].cause = "rejected"]
    /\ Return(r, 500, "write rejected")
    /\ vectors' = [vectors EXCEPT ![r] = <<>>]
    /\ UNCHANGED <<keyVars, widgetVars, extractVars, queryVars, chunkVars, cleanVars, env, serial, slugs, faults, shared, req, chunks, batch, attempt>>

\* markFailed without its try/catch: the rejection reaches POST's outer
\* catch, which answers 500 with the message of the rejected write.
MarkFailedNoCatch(r) ==
    /\ pc[r] \in {"markFailed_status", "markFailed_job"}
    /\ LET name == IF pc[r] = "markFailed_status" THEN "error" ELSE "failed"
       IN log' = [log EXCEPT ![r].calls = @ \cup {name},
                             ![r].failed = @ \cup {name}]
    /\ Return(r, 500, "write rejected")
    /\ vectors' = [vectors EXCEPT ![r] = <<>>]
    /\ batch' = [batch EXCEPT ![r] = 0]
    /\ UNCHANGED <<keyVars, widgetVars, extractVars, queryVars, chunkVars, cleanVars, env, serial, slugs, faults, shared, req, chunks, attempt>>

\* An awaited write of markFailed rejects: its catch logs the error, the
\* write after it (if any) is skipped, markFailed returns and the stage
\* returns its failure response.
MarkFailedCatch(r) ==
    /\ pc[r] \in {"markFailed_status", "markFailed_job"}
    /\ LET name == IF pc[r] = "markFailed_status" THEN "error" ELSE "failed"
       IN log' = [log EXCEPT ![r].calls = @ \cup {name},
                             ![r].failed = @ \cup {name}]
    /\ pc' = [pc EXCEPT ![r] = "done"]
    /\ vectors' = [vectors EXCEPT ![r] = <<>>]
    /\ batch' = [batch EXCEPT ![r] = 0]
    /\ UNCHANGED <<keyVars, widgetVars, extractVars, queryVars, chunkVars, cleanVars, env, serial, slugs, faults, shared, req, chunks, attempt, resp>>

\* ------------------------------------------------------ cleaning of text
\* A string is the sequence of its UTF-16 code units.

\* The code units of the texts: a, U+0301 (combining acute), space, tab,
\* line feed, carriage return, U+0001, U+007F, U+FDD0, U+FFFE, the high
\* surrogate U+D83F and the low surrogates U+DC00 and U+DFFE (U+D83F U+DFFE
\* is the non-character U+1FFFE).
Units == {97, 769, 32, 9, 10, 13, 1, 127, 64976, 65534, 55359, 56320, 57342}

\* The code units after a run of letters that reaches the snippet cap.
TailUnits == {97, 32, 10, 55359, 56320}

Strings(U, n) == UNION {[1..k -> U] : k \in 0..n}

\* The extracted texts: every string of at most MaxUnits code units, and
\* strings of SNIPPET_MAX - 1 or SNIPPET_MAX letters followed by at most 2
\* code units.  (rawText is not empty: POST returns 400 when it is.)
RawTexts ==
    (Strings(Units, MaxUnits) \ {<<>>})
      \cup {[i \in 1..n |-> 97] \o t :
               n \in {SNIPPET_MAX - 1, SNIPPET_MAX}, t \in Strings(TailUnits, 2)}

\* The code units of s at the indexes in keep, in order.
Sub(s, keep) ==
    LET sel == SelectSeq([i \in 1..Len(s) |-> <<i, s[i]>>], LAMBDA p : p[1] \in keep)
    IN [k \in 1..Len(sel) |-> sel[k][2]]

\* s.replace(/[ \t]+\n/g, "\n"): a space or tab goes when only spaces and
\* tabs are between it and the next line feed.
stripBeforeNewline(s) ==
    Sub(s, {i \in 1..Len(s) :
              ~(/\ s[i] \in {32, 9}
                /\ \E j \in (i + 1)..Len(s) :
                     /\ s[j] = 10
                     /\ \A k \in i..(j - 1) : s[k] \in {32, 9})})

\* s.replace(/\n{3,}/g, "\n\n"): of a run of line feeds the first two stay.
collapseNewlines(s) ==
    Sub(s, {i \in 1..Len(s) :
              ~(i >= 3 /\ s[i] = 10 /\ s[i - 1] = 10 /\ s[i - 2] = 10)})

\* The white space of String.prototype.trim among the code units used.
WhiteSpace == {9, 10, 11, 12, 13, 32}

\* s.trim()
trim(s) ==
    Sub(s, {i \in 1..Len(s) : /\ \E j \in 1..i : s[j] \notin WhiteSpace
                              /\ \E j \in i..Len(s) : s[j] \notin WhiteSpace})

\* .replace(/[ \t]+\n/g, "\n").replace(/\n{3,}/g, "\n\n").trim(), the end of
\* scrubUnicode and of sanitizeUnicode.
tidy(s) == trim(collapseNewlines(stripBeforeNewline(s)))

\* scrubUnicode without its first replace.
scrubUnicodeKeepsSurrogates(s) ==
    IF s = <<>> THEN <<>>
    ELSE LET s2 == SelectSeq(s, LAMBDA u : ~(\/ u \in 0..8 \/ u \in {11, 12}
                                             \/ u \in 14..31 \/ u \in 127..159))
             s3 == SelectSeq(s2, LAMBDA u : u \notin 64976..65007)
             s4 == SelectSeq(s3, LAMBDA u : u \notin {65534, 65535})
         IN tidy(s4)

\* scrubUnicode(s): the replaces work on code units (no u flag).
scrubUnicode(s) ==
    IF s = <<>> THEN <<>>
    ELSE LET s1 == SelectSeq(s, LAMBDA u : u \notin 55296..57343)
             s2 == SelectSeq(s1, LAMBDA u : ~(\/ u \in 0..8 \/ u \in {11, 12}
                                              \/ u \in 14..31 \/ u \in 127..159))
             s3 == SelectSeq(s2, LAMBDA u : u \notin 64976..65007)
             s4 == SelectSeq(s3, LAMBDA u : u \notin {65534, 65535})
         IN tidy(s4)

isHigh(u) == u \in 55296..56319
isLow(u) == u \in 56320..57343

\* Code unit i of s is the second half of a surrogate pair: the string
\* iterator (for...of, Array.from) pairs a high surrogate with the low
\* surrogate after it.
Trail(s, i) == i > 1 /\ isLow(s[i]) /\ isHigh(s[i - 1])

\* ch.codePointAt(0) for the character ch of s that code unit i belongs to.
codePointAt(s, i) ==
    LET j == IF Trail(s, i) THEN i - 1 ELSE i
    IN IF isHigh(s[j]) /\ j < Len(s) /\ isLow(s[j + 1])
         THEN 65536 + (s[j] - 55296) * 1024 + (s[j + 1] - 56320)
         ELSE s[j]

\* sanitizeUnicode with the replaces before the loop over the characters.
sanitizeUnicodeTidyFirst(input) ==
    LET skip(cp) == \/ cp >= 55296 /\ cp <= 57343
                    \/ cp <= 31 /\ cp # 9 /\ cp # 10 /\ cp # 13
                    \/ cp >= 127 /\ cp <= 159
                    \/ cp % 65536 = 65534 \/ cp % 65536 = 65535
        t == tidy(input)
    IN Sub(t, {i \in 1..Len(t) : ~skip(codePointAt(t, i))})

\* sanitizeUnicode(input): the loop over the characters, then the replaces.
sanitizeUnicode(input) ==
    LET skip(cp) == \/ cp >= 55296 /\ cp <= 57343
                    \/ cp <= 31 /\ cp # 9 /\ cp # 10 /\ cp # 13
                    \/ cp >= 127 /\ cp <= 159
                    \/ cp % 65536 = 65534 \/ cp % 65536 = 65535
    IN tidy(Sub(input, {i \in 1..Len(input) : ~skip(codePointAt(input, i))}))

\* t.normalize("NFC"): among the code units used the one canonical
\* composition is U+0061 U+0301 -> U+00E1.
NFC(t) ==
    LET composed == [i \in 1..Len(t) |->
                       IF t[i] = 97 /\ i < Len(t) /\ t[i + 1] = 769 THEN 225 ELSE t[i]]
    IN Sub(composed, {i \in 1..Len(t) : ~(t[i] = 769 /\ i > 1 /\ t[i - 1] = 97)})

\* normalizeText(t)
normalizeText(t) == sanitizeUnicode(NFC(t))

\* sliceByCodepoints(s, max): Array.from(s).slice(0, max).join(""), the
\* first max characters of s.  Character number n of s ends at code unit n
\* or later.
sliceByCodepoints(s, max) ==
    LET index(i) == Cardinality({j \in 1..i : ~Trail(s, j)})
    IN Sub(s, {i \in 1..Len(s) : i <= max \/ index(i) <= max})

\* safeSnippet without scrubUnicode.
safeSnippetNoScrub(s, max) == sliceByCodepoints(s, max)

\* safeSnippet(s, max = 500)
safeSnippet(s, max) == sliceByCodepoints(scrubUnicode(s), max)

\* s.slice(0, n), by code units.
sliceUnits(s, n) == SubSeq(s, 1, Min(n, Len(s)))

\* const sanitized = scrubUnicode(rawText)
ScrubUnicode ==
    /\ spc = "scrubUnicode"
    /\ sanitized' = scrubUnicode(raw)
    /\ spc' = "normalizeText"
    /\ UNCHANGED <<keyVars, widgetVars, extractVars, queryVars, chunkVars, env, serial, slugs, faults, shared, pc, req, chunks,
                   vectors, batch, attempt, resp, log, raw, cleaned, text_snippet>>

\* const cleaned = normalizeText(sanitized)
NormalizeText ==
    /\ spc = "normalizeText"
    /\ cleaned' = normalizeText(sanitized)
    /\ spc' = "smartChunk"
    /\ UNCHANGED <<keyVars, widgetVars, extractVars, queryVars, chunkVars, env, serial, slugs, faults, shared, pc, req, chunks,
                   vectors, batch, attempt, resp, log, raw, sanitized, text_snippet>>

\* The record of the first chunk of a cleaned text that is one chunk (it is
\* at most maxChars long and not empty): embedChunks keeps snippet:
\* b[i].slice(0, 500) and the record gets text_snippet:
\* safeSnippet(v.snippet).
SafeSnippet ==
    /\ spc = "smartChunk"
    /\ cleaned # <<>>
    /\ Len(cleaned) <= MAX_CHARS
    /\ text_snippet' = safeSnippet(sliceUnits(cleaned, SNIPPET_MAX), SNIPPET_MAX)
    /\ spc' = "record"
    /\ UNCHANGED <<keyVars, widgetVars, extractVars, queryVars, chunkVars, env, serial, slugs, faults, shared, pc, req, chunks,
                   vectors, batch, attempt, resp, log, raw, sanitized, cleaned>>

\* ------------------------------------------------------------ smartChunk
\* A string is kept as the sequence of the pieces it is made of: characters
\* [from, to) of block b of the text, or of the blank-line separator "\n\n"
\* (b = 0) that smartChunk puts between paragraphs.

\* Trimmed lengths of a block: empty (whitespace only), two that fit one
\* chunk together with their separator, maxChars, one more, 1.5 maxChars,
\* one more, and one that takes three windows.
ParaLens == {0, (MAX_CHARS - 2) \div 2, MAX_CHARS, MAX_CHARS + 1,
             (3 * MAX_CHARS) \div 2, (3 * MAX_CHARS) \div 2 + 1,
             2 * MAX_CHARS - OVERLAP + 1}

Blocks == [pad : {0, 1}, len : ParaLens]

\* The texts smartChunk is run on.
Texts == UNION {[1..n -> Blocks] : n \in 0..MaxParas}

\* s.length
StrLen(s) ==
    LET RECURSIVE Sum(_)
        Sum(k) == IF k = 0 THEN 0 ELSE (s[k].to - s[k].from) + Sum(k - 1)
    IN Sum(Len(s))

\* s.slice(a, b) for 0 <= a <= b <= s.length
Slice(s, a, b) ==
    LET off(k) == StrLen(SubSeq(s, 1, k - 1))
        clip(k) == [b |-> s[k].b,
                    from |-> s[k].from + Max(0, a - off(k)),
                    to |-> s[k].from + Min(s[k].to - s[k].from, b - off(k))]
    IN SelectSeq([k \in 1..Len(s) |-> clip(k)], LAMBDA x : x.from < x.to)

\* "\n\n"
Sep == <<[b |-> 0, from |-> 0, to |-> 2]>>

\* text.replace(/\r\n/g, "\n").split(/\n{2,}/).map((p) => p.trim())
\* .filter(Boolean): the trimmed blocks that are not empty, in order.
paras(t) ==
    SelectSeq([k \in 1..Len(t) |-> <<[b |-> k, from |-> t[k].pad,
                                       to |-> t[k].pad + t[k].len]>>],
              LAMBDA s : s[1].from < s[1].to)

\* The while loop of flush with the start moved by maxChars.
hardSliceNoOverlap(s, start, maxChars, overlap) ==
    LET RECURSIVE Loop(_)
        Loop(st) ==
            LET end == Min(st + maxChars, StrLen(s))
            IN IF end = StrLen(s) THEN <<Slice(s, st, end)>>
               ELSE <<Slice(s, st, end)>> \o Loop(end)
    IN Loop(start)

\* The while loop of flush: windows of maxChars characters of s from start
\* on, each starting overlap characters before the end of the one before,
\* until one ends at the end of s.
hardSlice(s, start, maxChars, overlap) ==
    LET RECURSIVE Loop(_)
        Loop(st) ==
            LET end == Min(st + maxChars, StrLen(s))
            IN IF end = StrLen(s) THEN <<Slice(s, st, end)>>
               ELSE <<Slice(s, st, end)>> \o Loop(Max(0, end - overlap))
    IN Loop(start)

\* flush pushing s whole whatever its length.
flushWhole(b, o, maxChars, overlap) ==
    IF StrLen(b) = 0 THEN o ELSE Append(o, b)

\* flush(): out after it (buf is "" after it).  buf.trim() is buf: buf is
\* empty or starts and ends with a trimmed paragraph.
flush(b, o, maxChars, overlap) ==
    IF StrLen(b) = 0 THEN o
    ELSE IF StrLen(b) > maxChars THEN o \o hardSlice(b, 0, maxChars, overlap)
    ELSE Append(o, b)

\* The body of the for loop with buf replaced by p without a flush.
forBodyNoFlush(b, o, p, maxChars, overlap) ==
    LET candidate == IF b # <<>> THEN b \o Sep \o p ELSE p
    IN IF StrLen(candidate) > maxChars
         THEN IF 2 * StrLen(p) > 3 * maxChars
                THEN [buf |-> <<>>, out |-> flush(p, o, maxChars, overlap)]
                ELSE [buf |-> p, out |-> o]
         ELSE [buf |-> candidate, out |-> o]

\* The body of `for (const p of paras)`: buf and out after it.
forBody(b, o, p, maxChars, overlap) ==
    LET candidate == IF b # <<>> THEN b \o Sep \o p ELSE p
    IN IF StrLen(candidate) > maxChars
         THEN IF 2 * StrLen(p) > 3 * maxChars
                THEN [buf |-> <<>>,
                      out |-> flush(p, flush(b, o, maxChars, overlap),
                                    maxChars, overlap)]
                ELSE [buf |-> p, out |-> flush(b, o, maxChars, overlap)]
         ELSE [buf |-> candidate, out |-> o]

\* smartChunk(text, maxChars, overlap): the texts of the chunks it returns.
smartChunk(t, maxChars, overlap) ==
    LET RECURSIVE For(_, _, _)
        For(i, b, o) ==
            IF i > Len(paras(t)) THEN flush(b, o, maxChars, overlap)
            ELSE LET n == forBody(b, o, paras(t)[i], maxChars, overlap)
                 IN For(i + 1, n.buf, n.out)
    IN For(1, <<>>, <<>>)

\* start = Math.max(0, end - 2 * overlap)
nextStartTwiceOverlap(end, overlap) == Max(0, end - 2 * overlap)

\* start = Math.max(0, end - overlap)
nextStart(end, overlap) == Max(0, end - overlap)

\* flush entering `if (s.length > maxChars)`: the parameters and the length
\* of s.  The defaults with a paragraph one character over the budget, one
\* that takes two and three windows exactly, and one over that; small
\* parameters with every length over maxChars.
SliceCalls ==
    {[s |-> n, start |-> 0, maxChars |-> MAX_CHARS, overlap |-> OVERLAP,
      pushed |-> 0, pc |-> "while"] :
        n \in {MAX_CHARS + 1, 2 * MAX_CHARS - OVERLAP, 3 * MAX_CHARS - 2 * OVERLAP,
               3 * MAX_CHARS - 2 * OVERLAP + 1}}
      \cup {c \in [s : 2..MaxSliced, start : {0}, maxChars : 1..MaxParam,
                   overlap : 0..MaxParam, pushed : {0}, pc : {"while"}] :
               c.s > c.maxChars}

\* One evaluation of `while (start < s.length)` and, when it holds, one
\* iteration: end, out.push(s.slice(start, end)), the break at the end of s,
\* the new start.
WhileBody ==
    /\ loop.pc = "while"
    /\ loop.pushed < MaxPushed
    /\ IF ~(loop.start < loop.s)
         THEN loop' = [loop EXCEPT !.pc = "done"]
         ELSE LET end == Min(loop.start + loop.maxChars, loop.s)
              IN loop' = [loop EXCEPT
                            !.pushed = @ + 1,
                            !.pc = IF end = loop.s THEN "done" ELSE @,
                            !.start = IF end = loop.s THEN @
                                      ELSE nextStart(end, loop.overlap)]
    /\ UNCHANGED <<keyVars, widgetVars, extractVars, queryVars, cleanVars, env, serial, slugs, faults, shared, pc, req, chunks,
                   vectors, batch, attempt, resp, log, text, at, buf, out, cpc>>

\* One iteration of smartChunk's for loop.
ChunkFor ==
    /\ cpc = "for"
    /\ at <= Len(paras(text))
    /\ LET n == forBody(buf, out, paras(text)[at], MAX_CHARS, OVERLAP)
       IN buf' = n.buf /\ out' = n.out
    /\ at' = at + 1
    /\ UNCHANGED <<keyVars, widgetVars, extractVars, queryVars, cleanVars, env, serial, slugs, faults, shared, pc, req, chunks,
                   vectors, batch, attempt, resp, log, text, cpc, loop>>

\* The end of the for loop: the last flush, and `return out`.
ChunkReturn ==
    /\ cpc = "for"
    /\ at > Len(paras(text))
    /\ out' = flush(buf, out, MAX_CHARS, OVERLAP)
    /\ buf' = <<>>
    /\ cpc' = "return"
    /\ UNCHANGED <<keyVars, widgetVars, extractVars, queryVars, cleanVars, env, serial, slugs, faults, shared, pc, req, chunks,
                   vectors, batch, attempt, resp, log, text, at, loop>>

\* ------------------------------------------- retrieval / answer endpoints
\* A JSON value of the request field topK (p.topK ?? p.topk, the field under
\* either spelling).  A number is kept as twice its value, so that 2.5 is a
\* value: [type |-> "number", twice |-> 5].
JSNumber(twice) == [type |-> "number", twice |-> twice]
Num(n) == JSNumber(2 * n)

\* Number(v): a finite number, or NaN (finite |-> FALSE).
ToNumber(v) ==
    IF v.type = "number" THEN [finite |-> TRUE, twice |-> v.twice]
    ELSE IF v.type = "null" THEN [finite |-> TRUE, twice |-> 0]
    ELSE IF v.type = "string" /\ v.numeric
      THEN [finite |-> TRUE, twice |-> 2 * v.digits]
    ELSE [finite |-> FALSE, twice |-> 0]

\* a ?? b
Coalesce(a, b) == IF a.type \in {"undefined", "null"} THEN b ELSE a

\* clampInt of the retrieval handler in the ingest route file:
\* const v = Number(n) || 0; Math.max(min, Math.min(v, max)).  Twice the
\* result.
clampIntOr0(v, min, max) ==
    LET n == IF ToNumber(v).finite THEN ToNumber(v).twice ELSE 0
    IN Max(2 * min, Min(n, 2 * max))

\* clampInt without the upper bound.
clampIntNoMax(v, min, max) ==
    LET n == ToNumber(v)
    IN IF ~n.finite THEN 2 * min ELSE Max(2 * min, n.twice)

\* clampInt(v, min, max) of both endpoints: const n = Number(v); min when n
\* is not finite, Math.max(min, Math.min(n, max)) otherwise.  Twice the
\* result.
clampInt(v, min, max) ==
    LET n == ToNumber(v)
    IN IF ~n.finite THEN 2 * min ELSE Max(2 * min, Min(n.twice, 2 * max))

\* topK of a request to an endpoint, the result-count bound given to the
\* index query: clampInt(p.topK ?? p.topk ?? 5, 1, 8 or 10).  Twice the
\* result.
TopK(endpoint, v) ==
    clampInt(Coalesce(v, Num(TOPK_DEFAULT)), 1,
             IF endpoint = "answer" THEN ANSWER_TOPK_MAX ELSE RETRIEVE_TOPK_MAX)

\* The message of the Error thrown when the clients of an endpoint are
\* built, "" when none is: getClients of the answer endpoint (requireEnv of
\* OPENAI_API_KEY, PINECONE_API_KEY, PINECONE_INDEX), getOpenAI and then
\* getPineconeIndex of the retrieval endpoint.
getClients(endpoint) ==
    IF endpoint = "answer"
      THEN IF ~requireEnv("OPENAI_API_KEY") THEN "Missing OPENAI_API_KEY"
           ELSE IF ~requireEnv("PINECONE_API_KEY") THEN "Missing PINECONE_API_KEY"
           ELSE IF ~requireEnv("PINECONE_INDEX") THEN "Missing PINECONE_INDEX"
           ELSE ""
      ELSE IF ~requireEnv("OPENAI_API_KEY") THEN "Missing OPENAI_API_KEY."
           ELSE IF ~(requireEnv("PINECONE_API_KEY") /\ requireEnv("PINECONE_INDEX"))
             THEN "Missing PINECONE_API_KEY or PINECONE_INDEX."
           ELSE ""

\* The request returns NextResponse.json(..., {status}).
QReturn(status, error, txt) ==
    /\ qpc' = "done"
    /\ qresp' = [status |-> status, error |-> error, text |-> txt,
                 citations |-> <<>>]

\* With both ids known, the clients are built; an Error thrown by that goes
\* to the catch, which answers 500 with its message.
BuildClients(endpoint) ==
    IF getClients(endpoint) # ""
      THEN QReturn(500, getClients(endpoint), "")
      ELSE qpc' = "embed" /\ qresp' = qresp

\* The number of records of a namespace.
RecordCount(ranges) ==
    LET RECURSIVE Sum(_)
        Sum(S) == IF S = {} THEN 0
                  ELSE LET s == CHOOSE x \in S : TRUE
                       IN (s.hi - s.lo) + Sum(S \ {s})
    IN Sum(ranges)

\* The check of the x-eleven-tool-secret header passing whenever the header
\* is present.
authorizedAnyHeader(endpoint, header) ==
    ~(endpoint = "answer" /\ secret) \/ header # "absent"

\* if (ELEVEN_TOOL_SECRET) { if (auth !== ELEVEN_TOOL_SECRET) return 401 }:
\* only the answer endpoint has the check.
authorized(endpoint, header) ==
    ~(endpoint = "answer" /\ secret) \/ header = "secret"

\* The requests: the endpoint, the x-eleven-tool-secret header (absent, not
\* the secret, the secret), the body (not JSON, without a question, or with
\* one), the ids, the slug (the page_slug of the ShareSurface row of
\* document d is written d) and topK.
QRequests ==
    [endpoint : QueryEndpoints, header : {"absent", "wrong", "secret"},
     body : {"invalid json", "no q", "ok"},
     document_id : Docs \cup {"none"}, doc_version_id : Vers \cup {"none"},
     slug : Docs \cup {"none", "does-not-exist"}, topK : TopKInputs]

\* POST of a query endpoint up to its first external call: the secret check
\* (answer endpoint), the body, the question, the ids.
QReceive ==
    /\ qpc = "idle"
    /\ \E request \in QRequests :
         /\ request.body # "ok"
              => /\ request.document_id = "none" /\ request.doc_version_id = "none"
                 /\ request.slug = "none" /\ request.topK = [type |-> "undefined"]
         /\ qreq' = request
         /\ target' = <<request.document_id, request.doc_version_id>>
         /\ topK' = IF authorized(request.endpoint, request.header)
                       /\ request.body # "invalid json"
                      THEN TopK(request.endpoint, request.topK) ELSE topK
         /\ IF ~authorized(request.endpoint, request.header)
              THEN QReturn(401, "unauthorized", "")
            ELSE IF request.body = "invalid json"
              THEN QReturn(500, "Unexpected token", "")
            ELSE IF request.body = "no q"
              THEN QReturn(400, "q required", "")
            ELSE IF (request.document_id = "none" \/ request.doc_version_id = "none")
                      /\ request.slug # "none"
              THEN qpc' = "lookup_slug" /\ qresp' = qresp
            ELSE IF request.document_id = "none" \/ request.doc_version_id = "none"
              THEN QReturn(400, "Provide slug or (document_id + doc_version_id)", "")
            ELSE BuildClients(request.endpoint)
    /\ UNCHANGED <<keyVars, widgetVars, extractVars, chunkVars, cleanVars, env, serial, slugs, faults, shared, pc, req, chunks, vectors, batch,
                   attempt, resp, log, secret, matches, contexts, qlog>>

\* The ShareSurface rows with page_slug = slug.
SlugRows(slug) == {d \in Docs : share_surfaces[d] # "none" /\ page_slug[d] = slug}

\* LookupSlug without the check of ss.error and ss.data.
LookupSlugNoCheck ==
    /\ qpc = "lookup_slug"
    /\ IF getAdminThrows
         THEN /\ QReturn(500, "Missing Supabase env", "")
              /\ UNCHANGED <<target, qlog>>
         ELSE /\ qlog' = Append(qlog, "lookup_slug")
              /\ \/ /\ QReturn(400, "Provide slug or (document_id + doc_version_id)", "")
                    /\ UNCHANGED target
                 \/ \E d \in SlugRows(qreq.slug) :
                      /\ SlugRows(qreq.slug) = {d}
                      /\ target' = <<d, share_surfaces[d]>>
                      /\ BuildClients(qreq.endpoint)
    /\ UNCHANGED <<keyVars, widgetVars, extractVars, chunkVars, cleanVars, env, serial, slugs, faults, shared, pc, req, chunks, vectors, batch,
                   attempt, resp, log, secret, qreq, topK, matches, contexts>>

\* supabaseAdmin.from("share_surfaces").select(...).eq("page_slug", slug)
\* .single(): an error (the store's, or .single() finding no row or more
\* than one) or no data is answered 404; a single row gives both ids.  getAdmin throws into the catch
\* when the Supabase env is missing.
LookupSlug ==
    /\ qpc = "lookup_slug"
    /\ IF getAdminThrows
         THEN /\ QReturn(500, "Missing Supabase env", "")
              /\ UNCHANGED <<target, qlog>>
         ELSE /\ qlog' = Append(qlog, "lookup_slug")
              /\ \/ /\ QReturn(404, "Unknown slug", "")
                    /\ UNCHANGED target
                 \/ \E d \in SlugRows(qreq.slug) :
                      /\ SlugRows(qreq.slug) = {d}
                      /\ target' = <<d, share_surfaces[d]>>
                      /\ BuildClients(qreq.endpoint)
    /\ UNCHANGED <<keyVars, widgetVars, extractVars, chunkVars, cleanVars, env, serial, slugs, faults, shared, pc, req, chunks, vectors, batch,
                   attempt, resp, log, secret, qreq, topK, matches, contexts>>

\* openai.embeddings.create({model, input: q}): a rejection goes to the
\* catch (500 with its message), a result without an embedding is answered
\* 500 "Embedding failed".
EmbedQuery ==
    /\ qpc = "embed"
    /\ qlog' = Append(qlog, "embed")
    /\ \/ QReturn(500, "embeddings.create rejected", "")
       \/ QReturn(500, "Embedding failed", "")
       \/ qpc' = "pinecone_query" /\ qresp' = qresp
    /\ UNCHANGED <<keyVars, widgetVars, extractVars, chunkVars, cleanVars, env, serial, slugs, faults, shared, pc, req, chunks, vectors, batch,
                   attempt, resp, log, secret, qreq, target, topK, matches, contexts>>

\* Lengths of the text_snippet metadata the index returns with a match: none,
\* what safeSnippet writes at most, and a whole chunk.
SnippetLengths == {0, SNIPPET_MAX, MAX_CHARS}

\* The matches of a query that returns m records whose text_snippet is len
\* characters long: the m first records of the namespace, the last of them
\* ranked first.
Matches(m, len) == [i \in 1..m |-> [idx |-> m - i, snippet |-> len]]

\* The number of decimal digits of n < 1000.
Digits(n) == IF n < 10 THEN 1 ELSE IF n < 100 THEN 2 ELSE 3

\* The length of `[#${i + 1} | idx ${idx}]\n${rawSnippet}` for entry n = i + 1.
EntryLength(n, m) == 2 + Digits(n) + 7 + Digits(m.idx) + 2 + m.snippet

\* The offset in matches.map(...).join("\n\n") of entry n.
EntryStart(ms, n) ==
    LET RECURSIVE Sum(_)
        Sum(k) == IF k = 0 THEN 0 ELSE EntryLength(k, ms[k]) + 2 + Sum(k - 1)
    IN Sum(n - 1)

\* contexts cut at a third of MAX_CONTEXT_CHARS.
contextsOfThirdCap(ms) ==
    LET joined == EntryStart(ms, Len(ms) + 1) - 2
        cap == MAX_CONTEXT_CHARS \div 3
    IN [length |-> Min(joined, cap),
        tags |-> {n \in 1..Len(ms) :
                    EntryStart(ms, n) + 2 + Digits(n) <= cap}]

\* contexts: the entries joined by "\n\n" and cut at MAX_CONTEXT_CHARS.  Its
\* length, and the n whose marker `[#n` is whole in it.
contextsOf(ms) ==
    LET joined == EntryStart(ms, Len(ms) + 1) - 2
    IN [length |-> Min(joined, MAX_CONTEXT_CHARS),
        tags |-> {n \in 1..Len(ms) :
                    EntryStart(ms, n) + 2 + Digits(n) <= MAX_CONTEXT_CHARS}]

\* citations = matches.map((m, i) => ({tag: `#${i + 1}`, idx, path, excerpt:
\* text_snippet.slice(0, 300), score})).
citationsOf(ms) ==
    [i \in 1..Len(ms) |-> [tag |-> i, idx |-> ms[i].idx,
                           excerpt |-> Min(ms[i].snippet, EXCERPT_MAX)]]

\* QueryIndex going on to the completion also without a match.
QueryIndexAlwaysCompletes ==
    /\ qpc = "pinecone_query"
    /\ qlog' = Append(qlog, "pinecone_query")
    /\ \/ /\ QReturn(500, "query rejected", "")
          /\ UNCHANGED <<matches, contexts>>
       \/ \E m \in 0..Min(topK \div 2,
                           IF target \in DOMAIN ns THEN RecordCount(ns[target]) ELSE 0),
             len \in SnippetLengths :
            /\ m = 0 => len = 0
            /\ matches' = Matches(m, len)
            /\ IF qreq.endpoint = "retrieve"
                 THEN QReturn(200, "", "hits") /\ UNCHANGED contexts
               ELSE /\ contexts' = contextsOf(matches')
                    /\ qpc' = "llm" /\ qresp' = qresp
    /\ UNCHANGED <<keyVars, widgetVars, extractVars, chunkVars, cleanVars, env, serial, slugs, faults, shared, pc, req, chunks, vectors, batch,
                   attempt, resp, log, secret, qreq, target, topK>>

\* index.namespace(`doc:${document_id}:v:${doc_version_id}`).query({vector,
\* topK, includeMetadata}): a rejection goes to the catch; otherwise at most
\* topK matches, of the records of that namespace.  The retrieval endpoint
\* returns the hits; the answer endpoint returns the insufficient-context
\* text when there is no match and builds the context block otherwise.
QueryIndex ==
    /\ qpc = "pinecone_query"
    /\ qlog' = Append(qlog, "pinecone_query")
    /\ \/ /\ QReturn(500, "query rejected", "")
          /\ UNCHANGED <<matches, contexts>>
       \/ \E m \in 0..Min(topK \div 2,
                           IF target \in DOMAIN ns THEN RecordCount(ns[target]) ELSE 0),
             len \in SnippetLengths :
            /\ m = 0 => len = 0
            /\ matches' = Matches(m, len)
            /\ IF qreq.endpoint = "retrieve"
                 THEN QReturn(200, "", "hits") /\ UNCHANGED contexts
               ELSE IF m = 0
                 THEN QReturn(200, "", "insufficient context") /\ UNCHANGED contexts
               ELSE /\ contexts' = contextsOf(matches')
                    /\ qpc' = "llm" /\ qresp' = qresp
    /\ UNCHANGED <<keyVars, widgetVars, extractVars, chunkVars, cleanVars, env, serial, slugs, faults, shared, pc, req, chunks, vectors, batch,
                   attempt, resp, log, secret, qreq, target, topK>>

\* openai.chat.completions.create(...) of the answer endpoint, called once:
\* a rejection goes to the catch, a completion is returned with citations.
Completion ==
    /\ qpc = "llm"
    /\ qlog' = Append(qlog, "llm")
    /\ \/ QReturn(500, "completions.create rejected", "")
       \/ /\ qpc' = "done"
          /\ qresp' = [status |-> 200, error |-> "", text |-> "answer",
                       citations |-> citationsOf(matches)]
    /\ UNCHANGED <<keyVars, widgetVars, extractVars, chunkVars, cleanVars, env, serial, slugs, faults, shared, pc, req, chunks, vectors, batch,
                   attempt, resp, log, secret, qreq, target, topK, matches, contexts>>

\* ----------------------------------------------------------------- claims
Done(r) == pc[r] = "done"

\* Run r has returned and no later request has arrived: the stores are as r
\* left them (requests one after the other).
Latest(r) == Done(r) /\ \A q \in Runs : q > r => pc[q] = "idle"

Key(r) == <<req[r].document_id, req[r].doc_version_id>>
Status(r) == doc_versions[req[r].doc_version_id].status
Failure(r) == resp[r].status \in {400, 500}
IndexCalls == {"deleteAll", "upsert"}

\* The failure bookkeeping of run r: both writes of markFailed were issued,
\* and, for the run that came last, each write the store applied shows in the
\* row it wrote.
Bookkeeping(r) ==
    /\ {"error", "failed"} \subseteq log[r].calls
    /\ (Latest(r) /\ {"doc_versions", "error"} \cap log[r].failed = {})
         => Status(r) = "error"
    /\ (Latest(r) /\ "failed" \notin log[r].failed)
         => jobs[Key(r)] = [status |-> "failed", error |-> resp[r].error]

TypeOK ==
    /\ env \subseteq EnvNames
    /\ faults \in 0..Max(MaxWriteFaults + 1, Cardinality(BestEffortWrites))
    /\ documents \subseteq Docs
    /\ \A v \in Vers : doc_versions[v].status \in
                         {"none", "processing", "ready", "error"}
    /\ \A d \in Docs : share_surfaces[d] \in Vers \cup {"none"}
    /\ \A k \in Docs \X Vers :
         /\ ns[k] = Ranges(Records(ns[k]))
         /\ \A i \in Idx : Records(ns[k])[i] \in Runs \cup {0}
    /\ \A r \in Runs :
         /\ log[r].calls \subseteq WriteNames \cup CallNames
         /\ log[r].failed \subseteq WriteNames \cup {"deleteAll"}
         /\ resp[r].status \in {0, 200, 400, 500}
         /\ attempt[r] \in 0..TRIES

\* C1: when the embedding stage fails (withRetry exhausted on some batch),
\* the run performs the failure bookkeeping (status `error`, failed
\* JobRecord with the message) before it answers with a failure.
C1_EmbedFailureBookkeeping ==
    \A r \in Runs :
        (Done(r) /\ log[r].cause = "embed") => Failure(r) /\ Bookkeeping(r)

\* C2: a run that upserted its DocumentVersion as `processing` and whose
\* relational writes all succeeded returns with the status `ready` when the
\* response is 200 and `error` when it is not; it never returns with the
\* status still `processing`.
C2_StatusAtReturn ==
    \A r \in Runs :
        (Latest(r) /\ "doc_versions" \in log[r].calls /\ log[r].failed = {})
          => /\ resp[r].status = 200 => Status(r) = "ready"
             /\ resp[r].status # 200 => Status(r) = "error"

\* C3: a run that fails at download, at extraction (empty text) or at
\* chunking (zero chunks) stops there: failure response, failure
\* bookkeeping, no embedding call and no vector-index call.
C3_EarlyFailureStops ==
    \A r \in Runs :
        (Done(r) /\ log[r].cause \in {"download", "extract", "chunk"})
          => /\ Failure(r)
             /\ Bookkeeping(r)
             /\ log[r].calls \cap ({"embed"} \cup IndexCalls) = {}

C3_Witness ==
    \E r \in Runs :
        /\ Latest(r) /\ log[r].cause = "chunk" /\ log[r].failed = {}
        /\ Status(r) = "error" /\ jobs[Key(r)].status = "failed"

\* C4: when a vector embedChunks returned has a length other than
\* PINECONE_DIM, the run makes no vector-index call (no deleteAll, no
\* upsert), does the failure bookkeeping and returns a failure.
C4_DimensionMismatchAborts ==
    \A r \in Runs :
        (Done(r) /\ log[r].cause = "dimension")
          => /\ Failure(r)
             /\ Bookkeeping(r)
             /\ log[r].calls \cap IndexCalls = {}

\* The mismatch is in the second embedding batch only.
C4_Witness ==
    \E r \in Runs :
        /\ Latest(r) /\ log[r].cause = "dimension" /\ log[r].failed = {}
        /\ chunks[r] > EMBED_BATCH /\ Status(r) = "error"
        /\ resp[r].error = "Embedding dim != Pinecone index dim"

\* The records of run r alone: `${document_id}-0` .. `${document_id}-(N-1)`.
RecordsOf(r) == [i \in Idx |-> IF i < chunks[r] THEN r ELSE 0]

\* C5: after two successful runs of the same (document id, version id), one
\* after the other, the namespace holds exactly the records of the second
\* run, also when the second run's deleteAll failed.
C5_SecondRunReplaces ==
    \A p, q \in Runs :
        (p < q /\ Done(p) /\ Latest(q) /\ Key(p) = Key(q)
           /\ resp[p].status = 200 /\ resp[q].status = 200)
          => Records(ns[Key(q)]) = RecordsOf(q)

\* C6 as claimed: once two concurrent runs of the same (document id, version
\* id) have both returned success, the namespace holds exactly the records
\* of one of them (here even with both deleteAll calls successful).
C6_ExactlyOneRun ==
    \A p, q \in Runs :
        (p < q /\ Done(p) /\ Done(q) /\ Key(p) = Key(q)
           /\ resp[p].status = 200 /\ resp[q].status = 200
           /\ "deleteAll" \notin log[p].failed \cup log[q].failed)
          => \E r \in {p, q} : Records(ns[Key(q)]) = RecordsOf(r)

\* The last batch of chunkArray(records, 150) of run r, as an index range.
LastBatchLo(r) ==
    chunkArrayLo(chunkArrayLen(chunks[r], UPSERT_BATCH) - 1, UPSERT_BATCH)

\* C6 as amended: once two concurrent runs of the same (document id, version
\* id) have both returned success, the namespace is not empty, every record
\* in it is a record of one of the two runs under its own index, and the
\* last batch of one of the runs is there in full; the namespace can mix
\* records of both runs and can miss records of either.
C6_NonEmptyOwnRecords ==
    \A p, q \in Runs :
        (p < q /\ Done(p) /\ Done(q) /\ Key(p) = Key(q)
           /\ resp[p].status = 200 /\ resp[q].status = 200)
          => LET rec == Records(ns[Key(q)])
             IN /\ \E i \in Idx : rec[i] # 0
                /\ \A i \in Idx : rec[i] # 0 => i < chunks[rec[i]]
                /\ \E r \in {p, q} :
                     \A i \in Idx : (LastBatchLo(r) <= i /\ i < chunks[r])
                                      => rec[i] = r

\* Both runs succeeded and the namespace mixes their records.
C6_Witness ==
    \E p, q \in Runs :
        /\ p < q /\ Done(p) /\ Done(q) /\ Key(p) = Key(q)
        /\ resp[p].status = 200 /\ resp[q].status = 200
        /\ \E s, t \in ns[Key(q)] : s.run = p /\ t.run = q

\* The step is one of run r.
Stepped(r) == <<pc[r], batch[r], log[r]>>' # <<pc[r], batch[r], log[r]>>

\* C7: a step of a run changes the contents of no namespace other than the
\* one keyed by the run's own (document id, version id).
C7_OtherNamespacesUnchanged ==
    [][\A k \in Docs \X Vers :
         ns'[k] # ns[k]
           => \E r \in Runs : /\ Stepped(r)
                              /\ k = <<req[r].document_id, req[r].doc_version_id>>]_vars

\* Two versions of one document hold the records of their own runs.
C7_Witness ==
    /\ Done(1) /\ Done(2)
    /\ req[1].document_id = req[2].document_id
    /\ req[1].doc_version_id # req[2].doc_version_id
    /\ Records(ns[Key(1)]) = RecordsOf(1)
    /\ Records(ns[Key(2)]) = RecordsOf(2)
    /\ chunks[1] > 0 /\ chunks[2] > 0

\* C8: a request whose body is not valid JSON or has no objectPath is
\* answered 400 and makes no relational write and no other external call.
C8_BadInput400 ==
    \A r \in Runs :
        (Done(r) /\ req[r].body \in {"invalid json", "no objectPath"})
          => resp[r].status = 400 /\ log[r].calls = {}

C10_MissingConfigNoMutation ==
    (env # EnvNames)
      => /\ documents = {}
         /\ \A v \in Vers : doc_versions[v].status = "none"
         /\ \A d \in Docs : share_surfaces[d] = "none"
         /\ doc_sections = {}
         /\ \A k \in Docs \X Vers : jobs[k].status = "none" /\ ns[k] = EmptyNs
         /\ \A r \in Runs :
              /\ log[r].calls = {}
              /\ Done(r) => resp[r].status =
                              IF req[r].body = "no objectPath" THEN 400 ELSE 500

\* The Supabase environment alone is missing: the clients were built and
\* the run was stopped at its first relational write.
C10_Witness ==
    \E r \in Runs :
        /\ Done(r) /\ req[r].body = "ok" /\ resp[r].status = 500
        /\ env = EnvNames \ {"SUPABASE_SERVICE_ROLE_KEY"}
        /\ resp[r].error = "Missing Supabase env"

\* C11: when a configuration value the clients of a query endpoint need
\* (OPENAI_API_KEY, PINECONE_API_KEY, PINECONE_INDEX) is missing, a request
\* to it makes no external call: the error is surfaced before the
\* ShareSurface slug lookup, the embedding call and the vector query.
C11_ConfigErrorBeforeCalls ==
    (qpc # "idle" /\ getClients(qreq.endpoint) # "") => qlog = <<>>

\* The request went past the secret check and has a question, a slug and
\* not both ids.
SlugRequest ==
    /\ authorized(qreq.endpoint, qreq.header) /\ qreq.body = "ok"
    /\ qreq.document_id = "none" \/ qreq.doc_version_id = "none"
    /\ qreq.slug # "none"

\* C24: a request with a question and a slug, without both ids, whose slug
\* is the page_slug of no ShareSurface row is answered 404 "Unknown slug"
\* (the Supabase env being set, so that the lookup is made), and the lookup
\* is its only external call.
C24_UnknownSlug404 ==
    (qpc = "done" /\ SlugRequest /\ SlugRows(qreq.slug) = {} /\ ~getAdminThrows)
      => /\ qresp = [status |-> 404, error |-> "Unknown slug", text |-> "",
                      citations |-> <<>>]
         /\ qlog = <<"lookup_slug">>

\* The slug "does-not-exist" while another slug has a row.
C24_Witness ==
    /\ qpc = "done" /\ SlugRequest /\ qreq.slug = "does-not-exist"
    /\ qreq.endpoint = "retrieve"
    /\ \E d \in Docs : share_surfaces[d] # "none"
    /\ qresp.status = 404 /\ env = EnvNames

\* The number of completion calls of the request.
LlmCalls == Cardinality({i \in 1..Len(qlog) : qlog[i] = "llm"})

\* The vector query of the request has returned its matches.
QueryReturned ==
    /\ \E i \in 1..Len(qlog) : qlog[i] = "pinecone_query"
    /\ qresp.error # "query rejected"

\* C25: a request to the answer endpoint calls the completion model at most
\* once, and only with matches; when its vector query returned no match it
\* is answered 200 with the insufficient-context text and no citation, and
\* when it returned matches and the request has returned, the model was
\* called exactly once.
C25_CompletionCalls ==
    qreq.endpoint = "answer"
      => /\ LlmCalls <= 1
         /\ LlmCalls = 1 => matches # <<>>
         /\ (qpc = "done" /\ QueryReturned)
              => IF matches = <<>>
                   THEN /\ LlmCalls = 0
                        /\ qresp = [status |-> 200, error |-> "",
                                     text |-> "insufficient context",
                                     citations |-> <<>>]
                   ELSE LlmCalls = 1

\* No match in a namespace that has records.
C25_Witness ==
    /\ qpc = "done" /\ qreq.endpoint = "answer" /\ QueryReturned
    /\ matches = <<>> /\ RecordCount(ns[target]) > 0
    /\ qresp.text = "insufficient context"

IngestWritten(ms) ==
    /\ Len(ms) <= ANSWER_TOPK_MAX
    /\ \A i \in 1..Len(ms) : ms[i].snippet <= SNIPPET_MAX

\* C37: for matches whose text_snippet is at most 500 characters long and at
\* most 8 of them, the context block the answer endpoint builds is the whole
\* join of the entries, shorter than MAX_CONTEXT_CHARS: the cut removes
\* nothing, every entry is in it to its last character.
C37_ContextUncut ==
    (qreq.endpoint = "answer" /\ contexts # NoContexts /\ IngestWritten(matches))
      => /\ contexts.length = EntryStart(matches, Len(matches) + 1) - 2
         /\ contexts.length < MAX_CONTEXT_CHARS
         /\ contexts.tags = 1..Len(matches)
         /\ \A n \in 1..Len(matches) :
              EntryStart(matches, n) + EntryLength(n, matches[n]) <= contexts.length

\* The answer endpoint has answered from ANSWER_TOPK_MAX matches whose
\* text_snippet is SNIPPET_MAX characters long.
C37_Witness ==
    /\ qpc = "done" /\ qreq.endpoint = "answer" /\ qresp.status = 200
    /\ Len(matches) = ANSWER_TOPK_MAX
    /\ \A i \in 1..Len(matches) : matches[i].snippet = SNIPPET_MAX
    /\ contexts.length = ANSWER_TOPK_MAX * (SNIPPET_MAX + 13) + 2 * (ANSWER_TOPK_MAX - 1)

\* C27: the topK given to the vector query is at least 1 and at most 10
\* (retrieval endpoint) or 8 (answer endpoint) whatever the topK field of the
\* request is, and 5 when the field is absent; so is the result of the third
\* clampInt (Number(n) || 0) for the same field.
C27_TopKClamped ==
    (\E i \in 1..Len(qlog) : qlog[i] = "pinecone_query")
      => LET max == IF qreq.endpoint = "answer" THEN ANSWER_TOPK_MAX
                    ELSE RETRIEVE_TOPK_MAX
             other == clampIntOr0(Coalesce(qreq.topK, Num(TOPK_DEFAULT)), 1,
                                  RETRIEVE_TOPK_MAX)
         IN /\ 2 * 1 <= topK /\ topK <= 2 * max
            /\ 2 * 1 <= other /\ other <= 2 * RETRIEVE_TOPK_MAX
            /\ qreq.topK.type = "undefined"
                 => topK = 2 * TOPK_DEFAULT /\ other = 2 * TOPK_DEFAULT

\* A request with topK 20 to the answer endpoint: 8 matches.
C27_Witness ==
    /\ qpc = "done" /\ qreq.endpoint = "answer"
    /\ qreq.topK = Num(2 * RETRIEVE_TOPK_MAX)
    /\ topK = 2 * ANSWER_TOPK_MAX
    /\ Len(matches) = ANSWER_TOPK_MAX

\* C28: with a secret configured, a request to the answer endpoint whose
\* x-eleven-tool-secret header is absent or is not the secret is answered
\* 401 "unauthorized" whatever its body is, and makes no external call.
C28_Unauthorized401 ==
    (qpc = "done" /\ qreq.endpoint = "answer" /\ secret /\ qreq.header # "secret")
      => /\ qresp = [status |-> 401, error |-> "unauthorized", text |-> "",
                      citations |-> <<>>]
         /\ qlog = <<>>

\* A wrong header on a body that is not JSON.
C28_Witness ==
    /\ qpc = "done" /\ qreq.endpoint = "answer" /\ secret
    /\ qreq.header = "wrong" /\ qreq.body = "invalid json"
    /\ qresp.status = 401

\* C12: a run whose download, extraction, chunking, embedding and vector
\* upserts succeeded answers 200 with its chunk count, has issued every
\* best-effort relational write, and leaves its vectors in its namespace,
\* whichever of those writes returned an error.
C12_BestEffortWritesNeverAbort ==
    \A r \in Runs :
        (Done(r) /\ req[r].body = "ok" /\ env = EnvNames /\ log[r].cause = "none")
          => /\ resp[r] = [status |-> 200, error |-> "", chunks |-> chunks[r]]
             /\ BestEffortWrites \subseteq log[r].calls
             /\ \A i \in Idx : i < chunks[r] => Records(ns[Key(r)])[i] = r

\* All six best-effort writes of a run of two upsert batches failed.
C12_Witness ==
    \E r \in Runs :
        /\ Done(r) /\ resp[r].status = 200 /\ chunks[r] > UPSERT_BATCH
        /\ log[r].failed = BestEffortWrites
        /\ Records(ns[Key(r)]) = RecordsOf(r)

\* The stages whose failure goes through markFailed.
FatalCauses == {"download", "extract", "chunk", "dimension", "upsert"}

\* C13: markFailed never changes the response of the stage that failed and
\* always returns to it: while a run is in markFailed, whether a write of it
\* succeeds, returns an error or rejects, the response held is unchanged,
\* the run stays in markFailed or returns, and what it returns is the failure
\* response (status and message) of the stage.
C13_MarkFailedSwallows ==
    [][\A r \in Runs :
         pc[r] \in {"markFailed_status", "markFailed_job"}
           => /\ resp'[r] = resp[r]
              /\ pc'[r] \in {pc[r], "markFailed_job", "done"}
              /\ log'[r].cause = log[r].cause /\ log[r].cause \in FatalCauses
              /\ Failure(r) /\ resp[r].error # ""]_vars

\* The status update of markFailed rejected, the JobRecord upsert was
\* skipped, and the run answered with the failure of its upsert stage.
C13_Witness ==
    \E r \in Runs :
        /\ Done(r) /\ log[r].cause = "upsert"
        /\ "error" \in log[r].failed /\ "failed" \notin log[r].calls
        /\ resp[r] = [status |-> 500, error |-> "pinecone upsert failed", chunks |-> 0]

\* A call of openai.embeddings.create by run r has returned.
EmbedCall(r) ==
    /\ pc[r] = "embedChunks"
    /\ <<pc[r], attempt[r], vectors[r]>>' # <<pc[r], attempt[r], vectors[r]>>

\* Run r has failed: a fatal stage has handed over to markFailed, or an
\* exception has reached the outer catch.
Failed(r) == log[r].cause # "none"

\* The share_surfaces upsert of run r was applied.
SurfaceWritten(r) == "share_surfaces" \in log[r].calls \ log[r].failed

\* The ShareSurface of run r's document points at run r's version.
LivePointsAt(r) == share_surfaces[req[r].document_id] = req[r].doc_version_id

\* C29 (as the code has it): a run that has failed makes no compensating
\* rollback.  Each of its steps after the failure leaves the documents, the
\* share surfaces, the section rows and every namespace as they were, and
\* writes at most the `error` status of its version and its failed
\* JobRecord; the share surface points at the run's version before and
\* after the step when the run's share_surfaces upsert was applied.
C29_NoRollback ==
    [][\A r \in Runs :
         (Failed(r) /\ Stepped(r))
           => /\ documents' = documents
              /\ share_surfaces' = share_surfaces
              /\ doc_sections' = doc_sections
              /\ ns' = ns
              /\ doc_versions' \in
                   {doc_versions, UpdateStatus(req[r].doc_version_id, "error")}
              /\ jobs' \in
                   {jobs, [jobs EXCEPT ![Namespace(r)] =
                             [status |-> "failed", error |-> resp[r].error]]}
              /\ SurfaceWritten(r) => LivePointsAt(r) /\ LivePointsAt(r)']_vars

\* The second upsert batch of a run failed: after markFailed the first
\* batch is still in the namespace, the Document row is there, the share
\* surface points at the version, which is `error`, and the job is `failed`.
C29_Witness ==
    \E r \in Runs :
        /\ Latest(r) /\ log[r].cause = "upsert" /\ log[r].failed = {}
        /\ {"error", "failed"} \subseteq log[r].calls
        /\ Records(ns[Key(r)])[0] = r
        /\ req[r].document_id \in documents
        /\ LivePointsAt(r)
        /\ Status(r) = "error" /\ jobs[Key(r)].status = "failed"

\* C29 as stated: whenever a run has failed in a fatal stage, the share
\* surface of its document points at the run's version.
C29_LiveVersionIsFailedVersion ==
    \A r \in Runs :
        (pc[r] \in {"markFailed_status", "markFailed_job"}
           \/ (Latest(r) /\ log[r].cause \in FatalCauses))
          => LivePointsAt(r)

\* Every extractor of the object's format has failed: for a pdf the fast
\* extractor threw or gave at most 20 characters and the page-by-page
\* extractor threw, for a docx the converter threw.
Exhausted(o) ==
    \/ /\ o.ext = "pdf"
       /\ o.fast = Throws \/ o.fast <= TRIVIAL_LENGTH
       /\ o.pages = Throws
    \/ /\ o.ext = "docx"
       /\ o.docx = Throws

\* C30: a run whose object has exhausted the extractors of its format ends
\* in the fatal "No text extracted" error with status 400 and indexes
\* nothing.
C30_ExhaustionIsFatal ==
    \A r \in Runs :
        (Exhausted(file[r]) /\ pc[r] # "extractText")
          => /\ log[r].cause = "extract"
             /\ resp[r] = [status |-> 400,
                           error |-> "No text extracted (unsupported or empty)",
                           chunks |-> 0]
             /\ ns[Key(r)] = EmptyNs

\* C32: no two ShareSurface rows of different documents carry the same
\* page_slug: the rows a slug lookup finds are never more than one.
C32_PageSlugsUnique ==
    \A a, b \in Docs :
        (a # b /\ share_surfaces[a] # "none" /\ share_surfaces[b] # "none")
          => page_slug[a] # page_slug[b]

\* C38: when run r has returned 200 and no later ingest request has
\* arrived, the lookup of its page_slug finds the one row of its document,
\* and the row's live_version_id is the run's version.
C38_SlugResolvesToIngested ==
    \A r \in Runs :
        (Latest(r) /\ resp[r].status = 200)
          => /\ SlugRows(PageSlug(r)) = {req[r].document_id}
             /\ share_surfaces[req[r].document_id] = req[r].doc_version_id

\* The section rows run r inserts: one per chunk, idx 0..N-1, for its
\* version.
SectionsOf(r) ==
    [doc_version_id |-> req[r].doc_version_id, rows |-> chunks[r], run |-> r]

\* C33: after two successful runs of the same (document id, version id)
\* whose section inserts were applied, the doc_sections table holds the rows
\* of both runs and the namespace holds the records of the second run only.
C33_SectionsOfAllRunsVectorsOfOne ==
    \A p, q \in Runs :
        (/\ p < q /\ Done(p) /\ Latest(q) /\ Key(p) = Key(q)
         /\ resp[p].status = 200 /\ resp[q].status = 200
         /\ "doc_sections" \notin log[p].failed \cup log[q].failed)
          => /\ {SectionsOf(p), SectionsOf(q)} \subseteq doc_sections
             /\ Records(ns[Key(q)]) = RecordsOf(q)

\* Run r issues call name in this step for the first time.
Issues(r, name) == name \notin log[r].calls /\ name \in log'[r].calls

\* The three writes that initialize the rows of a run.
RowWrites == {"documents", "doc_versions", "share_surfaces"}

\* C34: the writes of a run are ordered.  The download starts after the
\* three row writes were issued; the first upsert follows the namespace
\* clear; the `ready` update is issued when no stage has failed and every
\* record of the run is in its namespace; the succeeded JobRecord follows
\* the `ready` update; no run issues both a `ready` and an `error` update.
C34_WritesOrdered ==
    [][\A r \in Runs :
         /\ Issues(r, "download") => RowWrites \subseteq log[r].calls
         /\ Issues(r, "upsert") => "deleteAll" \in log[r].calls
         /\ Issues(r, "ready")
              => /\ log[r].cause = "none"
                 /\ RowWrites \cup {"download", "deleteAll", "upsert"}
                      \subseteq log[r].calls
                 /\ \A i \in Idx : i < chunks[r] => Records(ns[Key(r)])[i] = r
         /\ Issues(r, "succeeded") => "ready" \in log[r].calls
         /\ ~({"ready", "error"} \subseteq log'[r].calls)]_vars

\* A run of two upsert batches has issued every write of the success path;
\* its row of doc_versions went from `processing` to `ready`.
C34_Witness ==
    \E r \in Runs :
        /\ Done(r) /\ resp[r].status = 200 /\ chunks[r] > UPSERT_BATCH
        /\ log[r].calls = (WriteNames \ {"error", "failed"})
                            \cup {"download", "embed", "deleteAll", "upsert"}
        /\ log[r].failed = {}
        /\ Status(r) = "ready" /\ jobs[Key(r)].status = "succeeded"

\* C35: two requests with different pairs of ids build different namespace
\* strings.
C35_NamespaceInjective ==
    (Len(namespaces) = 2 /\ idPairs[1] # idPairs[2])
      => namespaces[1] # namespaces[2]

\* An iteration of the while loop that goes on to another one.
Iterates == loop.pc = "while" /\ loop'.pc = "while" /\ loop' # loop

\* C36 (as the code has it): when overlap < maxChars, every iteration of the
\* hard-slice loop that does not end the loop moves start forward, start
\* stays below the length of s, and the loop has pushed at most s.length
\* windows; it is never left before its end.
C36_HardSliceAdvances ==
    [][loop.overlap < loop.maxChars
         => /\ Iterates => loop'.start > loop.start /\ loop'.start < loop.s
            /\ loop'.pushed <= loop.s
            /\ loop'.pushed < MaxPushed \/ loop'.pc = "done"]_vars

\* The loop has ended for the defaults on a string one character longer
\* than three full windows, after four windows.
C36_Witness ==
    /\ loop.pc = "done"
    /\ loop.maxChars = MAX_CHARS /\ loop.overlap = OVERLAP
    /\ loop.s = 3 * MAX_CHARS - 2 * OVERLAP + 1 /\ loop.pushed = 4
    /\ loop.start = 3 * (MAX_CHARS - OVERLAP)

\* C36 as stated: for every maxChars >= 1 and overlap >= 0, every iteration
\* of the hard-slice loop that does not end the loop moves start forward.
C36_AdvancesForAllParameters ==
    [][Iterates => loop'.start > loop.start]_vars

\* C14: withRetry makes at most TRIES = 4 calls for one embedding batch and
\* stops at the first that succeeds.  attempt counts the failed calls of the
\* current batch: a call that succeeds after k < 4 failures is the (k+1)-th
\* and last call for the batch, its result is appended and the count starts
\* again at 0 for the next batch; a call that fails after k < 3 failures is
\* followed by another for the same batch; the call that fails after 3
\* failures is the fourth and last: the run returns "embedding failed" with
\* batches left unattempted, and a run that has returned makes no call.
C14_RetryBudget ==
    /\ [](\A r \in Runs :
            /\ attempt[r] <= TRIES
            /\ attempt[r] = TRIES <=> (Done(r) /\ log[r].cause = "embed"))
    /\ [][\A r \in Runs :
            /\ EmbedCall(r) =>
                 \/ /\ attempt[r] < TRIES
                    /\ Len(vectors'[r]) = Len(vectors[r]) + 1
                    /\ SubSeq(vectors'[r], 1, Len(vectors[r])) = vectors[r]
                    /\ attempt'[r] = 0
                    /\ \/ pc'[r] = "embedChunks" /\ batch'[r] = batch[r] + 1
                       \/ pc'[r] = "dimCheck"
                    /\ resp'[r] = resp[r]
                 \/ /\ attempt'[r] = attempt[r] + 1 /\ attempt'[r] < TRIES
                    /\ vectors'[r] = vectors[r] /\ batch'[r] = batch[r]
                    /\ pc'[r] = "embedChunks"
                    /\ resp'[r] = resp[r]
                 \/ /\ attempt[r] = TRIES - 1 /\ attempt'[r] = TRIES
                    /\ Len(vectors[r]) < chunkArrayLen(chunks[r], EMBED_BATCH)
                    /\ pc'[r] = "done"
                    /\ resp'[r] = [status |-> 500, error |-> "embedding failed",
                                   chunks |-> 0]
            /\ Done(r) => (pc'[r] = "done" /\ log'[r] = log[r])]_vars

\* The first batch has succeeded and the second has failed three times: its
\* fourth call is the next.
C14_Witness ==
    \E r \in Runs :
        /\ pc[r] = "embedChunks" /\ Len(vectors[r]) = 1 /\ batch[r] = 1
        /\ attempt[r] = TRIES - 1

\* The number of vectors in the batches before batch k of vectors[r]: the
\* position in the result of the first vector of batch k.
VectorsBefore(r, k) ==
    LET RECURSIVE Sum(_)
        Sum(j) == IF j = 0 THEN 0 ELSE vectors[r][j].n + Sum(j - 1)
    IN Sum(k - 1)

\* C15: the vector at position i of embedChunks' result has the embedding
\* and the snippet of chunk i, also in the batches after the first; once
\* embedChunks has returned there are chunks.length vectors; and a run that
\* answers 200 reports chunks.length and leaves records 0..chunks.length-1,
\* record i written from vector i.
C15_VectorsParallelToChunks ==
    \A r \in Runs :
        /\ \A k \in 1..Len(vectors[r]) :
             /\ vectors[r][k].emb = VectorsBefore(r, k)
             /\ vectors[r][k].snip = VectorsBefore(r, k)
        /\ (vectors[r] # <<>> /\ pc[r] # "embedChunks")
             => VectorCount(r) = chunks[r]
        /\ (Done(r) /\ resp[r].status = 200)
             => /\ resp[r].chunks = chunks[r]
                /\ Records(ns[Key(r)]) = RecordsOf(r)

\* embedChunks has returned the vectors of two batches, the second from
\* chunk 96 on.
C15_Witness ==
    \E r \in Runs :
        /\ pc[r] = "deleteAll" /\ Len(vectors[r]) = 2
        /\ vectors[r][2].snip = EMBED_BATCH
        /\ VectorCount(r) = UPSERT_BATCH + 1

\* C16: the upsert calls of a run take the records 150 at a time, in order:
\* call number b writes exactly the records b*150 .. min(N, (b+1)*150) - 1
\* and the loop ends when record N-1 is written.  A call that fails writes
\* nothing and is the run's last call to the index: the run goes to
\* markFailed with a 500 response, so that it returns with the records of
\* the batches before the failed one, the version marked `error` and a
\* failed JobRecord.
C16_UpsertBatches ==
    /\ [](\A r \in Runs :
            (Latest(r) /\ log[r].cause = "upsert")
              => /\ resp[r].status = 500
                 /\ Bookkeeping(r)
                 /\ \E b \in 0..((chunks[r] - 1) \div UPSERT_BATCH) :
                      \A i \in Idx : Records(ns[Key(r)])[i] = r
                                         <=> i < b * UPSERT_BATCH)
    /\ [][\A r \in Runs :
            /\ (pc[r] = "upsert" /\ Stepped(r)) =>
                 LET lo == batch[r] * UPSERT_BATCH
                     hi == Min(chunks[r], lo + UPSERT_BATCH)
                 IN \/ /\ lo < hi
                       /\ \A i \in Idx :
                            Records(ns'[Key(r)])[i] =
                              IF lo <= i /\ i < hi THEN r
                              ELSE Records(ns[Key(r)])[i]
                       /\ IF hi = chunks[r] THEN pc'[r] = "doc_sections"
                          ELSE pc'[r] = "upsert" /\ batch'[r] = batch[r] + 1
                       /\ resp'[r] = resp[r]
                    \/ /\ ns' = ns
                       /\ pc'[r] = "markFailed_status"
                       /\ resp'[r].status = 500
            /\ (log[r].cause = "upsert" /\ Stepped(r)) => ns' = ns]_vars

\* The second upsert batch of a run of 151 records failed: the first 150
\* records are in the namespace, the version is `error`, the JobRecord
\* `failed`.
C16_Witness ==
    \E r \in Runs :
        /\ Latest(r) /\ log[r].cause = "upsert" /\ log[r].failed = {}
        /\ chunks[r] = UPSERT_BATCH + 1
        /\ Records(ns[Key(r)]) = [i \in Idx |-> IF i < UPSERT_BATCH THEN r ELSE 0]
        /\ Status(r) = "error" /\ jobs[Key(r)].status = "failed"

\* C17: every chunk smartChunk has produced is at most maxChars characters
\* long, whatever the lengths of the paragraphs, and its buffer is longer
\* than maxChars only while it holds a single paragraph.
C17_ChunkLength ==
    /\ \A k \in 1..Len(out) : StrLen(out[k]) <= MAX_CHARS
    /\ StrLen(buf) > MAX_CHARS => Len(buf) = 1

\* A text with a paragraph between maxChars and 1.5 maxChars, kept in the
\* buffer until the next paragraph, and one above 1.5 maxChars.
C17_Witness ==
    /\ cpc = "return"
    /\ Len(text) = 2
    /\ text[1].len = (3 * MAX_CHARS) \div 2
    /\ text[2].len = (3 * MAX_CHARS) \div 2 + 1
    /\ Len(out) = 4
    /\ StrLen(out[1]) = MAX_CHARS

\* The text is one paragraph, longer than maxChars.
SingleLongParagraph ==
    /\ Len(paras(text)) = 1
    /\ StrLen(paras(text)[1]) > MAX_CHARS

\* C18: of a single paragraph longer than maxChars smartChunk returns at
\* least 2 chunks, each at most maxChars long; the first overlap characters
\* of each chunk after the first are the last overlap characters of the
\* chunk before it, and it starts maxChars - overlap after that chunk.
C18_HardSliceOverlap ==
    (cpc = "return" /\ SingleLongParagraph)
      => /\ Len(out) >= 2
         /\ \A k \in 1..Len(out) : StrLen(out[k]) <= MAX_CHARS /\ Len(out[k]) = 1
         /\ \A k \in 1..(Len(out) - 1) :
              /\ StrLen(out[k + 1]) >= OVERLAP
              /\ Slice(out[k + 1], 0, OVERLAP)
                   = Slice(out[k], StrLen(out[k]) - OVERLAP, StrLen(out[k]))
              /\ out[k + 1][1].from = out[k][1].from + (MAX_CHARS - OVERLAP)

\* The paragraph of maxChars + 1 characters: two chunks.
C18_Witness ==
    /\ cpc = "return"
    /\ text = <<[pad |-> 0, len |-> MAX_CHARS + 1]>>
    /\ Len(out) = 2
    /\ StrLen(out[2]) = OVERLAP + 1

\* The pieces of paragraphs in the chunks, in the order of the chunks.
OutPieces ==
    LET RECURSIVE Flat(_)
        Flat(k) == IF k = 0 THEN <<>>
                   ELSE Flat(k - 1) \o SelectSeq(out[k], LAMBDA x : x.b # 0)
    IN Flat(Len(out))

\* Chunk c is whole paragraphs i, i + 1, ... of paras(text), each followed
\* by a whole separator except the last.
WholeParagraphs(c) ==
    /\ Len(c) % 2 = 1
    /\ \E i \in 1..Len(paras(text)) :
         \A j \in 1..Len(c) :
             IF j % 2 = 1
               THEN /\ i + (j \div 2) <= Len(paras(text))
                    /\ c[j] = paras(text)[i + (j \div 2)][1]
               ELSE c[j] = Sep[1]

\* C19: once smartChunk has returned, the chunks hold the non-empty trimmed
\* paragraphs of the text in order: the pieces of a paragraph go from its
\* first character to its last, each starting after the start and not after
\* the end of the one before; a paragraph that was not hard-sliced is in
\* exactly one chunk; nothing of an empty block is in a chunk; a chunk is a
\* window of one paragraph or whole consecutive paragraphs joined by a blank
\* line.
C19_ChunksReconstructParagraphs ==
    (cpc = "return")
      => /\ \A j \in 1..(Len(OutPieces) - 1) : OutPieces[j].b <= OutPieces[j + 1].b
         /\ \A k \in 1..Len(text) :
              LET ps == SelectSeq(OutPieces, LAMBDA x : x.b = k)
              IN IF text[k].len = 0 THEN ps = <<>>
                 ELSE /\ ps # <<>>
                      /\ ps[1].from = text[k].pad
                      /\ ps[Len(ps)].to = text[k].pad + text[k].len
                      /\ \A j \in 1..(Len(ps) - 1) :
                           /\ ps[j].from < ps[j + 1].from
                           /\ ps[j + 1].from <= ps[j].to
                           /\ ps[j].to < ps[j + 1].to
                      /\ text[k].len <= MAX_CHARS => Len(ps) = 1
         /\ \A k \in 1..Len(out) :
              \/ Len(out[k]) = 1 /\ out[k][1].b # 0
              \/ WholeParagraphs(out[k])

\* Two paragraphs in one chunk, an empty block, and a hard-sliced paragraph.
C19_Witness ==
    /\ cpc = "return"
    /\ Len(text) = 3
    /\ text[1].len = (MAX_CHARS - 2) \div 2 /\ text[1].pad = 1
    /\ text[2].len = (MAX_CHARS - 2) \div 2
    /\ text[3].len = (3 * MAX_CHARS) \div 2 + 1
    /\ Len(out) = 3
    /\ Len(out[1]) = 3

\* The paragraphs of text t joined by blank lines.
Joined(t) ==
    LET RECURSIVE Join(_)
        Join(i) == IF i = 0 THEN <<>>
                   ELSE IF i = 1 THEN paras(t)[1]
                   ELSE Join(i - 1) \o Sep \o paras(t)[i]
    IN Join(Len(paras(t)))

\* Of a text with a paragraph, whose paragraphs joined by blank lines are at
\* most maxChars long, smartChunk returns one chunk: the joined paragraphs.
ShortTextOneChunk ==
    \A t \in Texts :
        (paras(t) # <<>> /\ StrLen(Joined(t)) <= MAX_CHARS)
          => smartChunk(t, MAX_CHARS, OVERLAP) = <<Joined(t)>>

\* Every external call of run r succeeded and its text gave chunks.
AllCallsSucceeded(r) ==
    /\ Latest(r) /\ req[r].body = "ok" /\ env = EnvNames
    /\ log[r].cause = "none" /\ log[r].failed = {}
    /\ chunks[r] >= 1

\* C20: after a run whose external calls all succeeded and whose text gave
\* N >= 1 chunks, the namespace of its (document id, version id) holds
\* exactly the records 0 .. N-1 of this run, the version is `ready`, the job
\* is `succeeded` and the response is 200 with chunks = N; a text whose
\* paragraphs joined by blank lines are at most maxChars long gives one
\* chunk, and then the namespace holds the record 0 only.
C20_HappyPath ==
    /\ ShortTextOneChunk
    /\ \A r \in Runs :
         AllCallsSucceeded(r)
           => /\ Records(ns[Key(r)]) = RecordsOf(r)
              /\ chunks[r] = 1 => \A i \in Idx : Records(ns[Key(r)])[i] # 0 <=> i = 0
              /\ Status(r) = "ready"
              /\ jobs[Key(r)].status = "succeeded"
              /\ resp[r] = [status |-> 200, error |-> "", chunks |-> chunks[r]]

\* A run of one chunk after a run of the same document and version that left
\* more records.
C20_Witness ==
    /\ Done(1) /\ AllCallsSucceeded(2)
    /\ Key(1) = Key(2)
    /\ resp[1].status = 200 /\ chunks[1] = UPSERT_BATCH + 1
    /\ chunks[2] = 1
    /\ resp[2].chunks = 1

\* scrubUnicode, then normalizeText: what POST does to the extracted text.
Sanitize(x) == normalizeText(scrubUnicode(x))

Idempotent(x) ==
    /\ scrubUnicode(scrubUnicode(x)) = scrubUnicode(x)
    /\ sanitizeUnicode(sanitizeUnicode(x)) = sanitizeUnicode(x)
    /\ Sanitize(Sanitize(x)) = Sanitize(x)

\* C21: scrubUnicode, sanitizeUnicode and scrubUnicode followed by
\* normalizeText each return their own output unchanged, for every extracted
\* text; the texts POST makes (sanitized, cleaned) are such outputs; "" is
\* mapped to "".
C21_SanitizeIdempotent ==
    /\ Idempotent(<<>>) /\ scrubUnicode(<<>>) = <<>>
    /\ sanitizeUnicode(<<>>) = <<>> /\ Sanitize(<<>>) = <<>>
    /\ spc = "scrubUnicode" => Idempotent(raw)
    /\ spc = "normalizeText"
         => sanitized = scrubUnicode(raw) /\ scrubUnicode(sanitized) = sanitized
    /\ spc \in {"smartChunk", "record"}
         => /\ cleaned = Sanitize(raw)
            /\ Sanitize(cleaned) = cleaned
            /\ sanitizeUnicode(cleaned) = cleaned

\* A control character between a letter and a combining mark, and a line
\* feed at the end: the cleaned text is the composed letter.
C21_Witness ==
    /\ spc = "smartChunk"
    /\ raw = <<97, 1, 769, 10>>
    /\ sanitized = <<97, 769>>
    /\ cleaned = <<225>>

\* Code unit i of s is a surrogate, a C0 control other than tab, line feed
\* and carriage return, in U+007F..U+009F, or (part of) a non-character.
Forbidden(s, i) ==
    \/ s[i] \in 55296..57343
    \/ s[i] \in (0..31) \ {9, 10, 13}
    \/ s[i] \in 127..159
    \/ s[i] \in 64976..65007
    \/ codePointAt(s, i) % 65536 \in {65534, 65535}

\* C22: the text given to smartChunk has no surrogate code unit, no C0
\* control other than tab, line feed and carriage return, nothing in
\* U+007F..U+009F and no non-character.
C22_NoForbiddenCodePoints ==
    spc \in {"smartChunk", "record"}
      => \A i \in 1..Len(cleaned) : ~Forbidden(cleaned, i)

\* A valid surrogate pair, U+FDD0 and U+007F around a letter.
C22_Witness ==
    /\ spc = "smartChunk"
    /\ raw = <<55359, 56320, 64976, 97>> \/ raw = <<55359, 57342, 97, 127>>
    /\ cleaned = <<97>>

\* The indexes of s at which a well-formed supplementary-plane character
\* starts: a high surrogate, the low surrogate after it, and a code point
\* that is not a non-character.
Supplementary(s) ==
    {i \in 1..Len(s) :
       /\ isHigh(s[i]) /\ i < Len(s) /\ isLow(s[i + 1])
       /\ codePointAt(s, i) % 65536 \notin {65534, 65535}}

\* C31: the text given to smartChunk has as many well-formed
\* supplementary-plane characters as the extracted text.
C31_SupplementaryKept ==
    spc \in {"smartChunk", "record"}
      => Cardinality(Supplementary(cleaned)) = Cardinality(Supplementary(raw))

\* t is at most 500 characters, has no forbidden code unit, and neither
\* starts with the second half nor ends with the first half of a surrogate
\* pair.
SnippetOK(t) ==
    /\ Cardinality({j \in 1..Len(t) : ~Trail(t, j)}) <= SNIPPET_MAX
    /\ \A i \in 1..Len(t) : ~Forbidden(t, i)
    /\ t # <<>> => ~isLow(t[1]) /\ ~isHigh(t[Len(t)])

\* C23: the text_snippet of a record is at most 500 characters, is an
\* output of scrubUnicode and has no half of a surrogate pair at either
\* end; the same holds for the snippet of a chunk whose text is any of the
\* extracted texts (with surrogates, and cut inside a pair by slice(0, 500)).
C23_SnippetCapped ==
    /\ spc = "record"
         => SnippetOK(text_snippet) /\ scrubUnicode(text_snippet) = text_snippet
    /\ SnippetOK(safeSnippet(sliceUnits(raw, SNIPPET_MAX), SNIPPET_MAX))
    /\ SnippetOK(safeSnippet(raw, SNIPPET_MAX))

\* A chunk longer than 500 characters.
C23_Witness ==
    /\ spc = "record"
    /\ Len(cleaned) = SNIPPET_MAX + 2
    /\ Len(text_snippet) = SNIPPET_MAX

\* A step of ingest request r.
Run(r) ==
    \/ Receive(r)
    \/ UpsertDocuments(r)
    \/ UpsertDocVersions(r)
    \/ UpsertShareSurfaces(r)
    \/ Download(r)
    \/ ExtractText(r)
    \/ SmartChunk(r)
    \/ EmbedAttempt(r)
    \/ DimCheck(r)
    \/ DeleteAll(r)
    \/ Upsert(r)
    \/ InsertSections(r)
    \/ UpdateReady(r)
    \/ UpsertJobSucceeded(r)
    \/ MarkFailedStatus(r)
    \/ MarkFailedJob(r)

Next == \E r \in Runs : Run(r)

\* Requests handled one after the other.
Init == serial = TRUE /\ faults = MaxWriteFaults /\ InitRows
Spec == Init /\ [][Next]_vars

\* One request, every best-effort write of which can return an error.  The
\* Supabase client resolves a failed request with {error}; here an awaited
\* write can also reject, which the code meets with its catch blocks.
NextOne ==
    \/ Run(1)
    \/ WriteRejects(1)
    \/ MarkFailedCatch(1)
InitOne == serial = TRUE /\ faults = Cardinality(BestEffortWrites) /\ InitRows
SpecOne == InitOne /\ [][NextOne]_vars

\* The cleaning of an extracted text and the snippet of its first record.
NextClean ==
    \/ ScrubUnicode
    \/ NormalizeText
    \/ SafeSnippet

InitClean ==
    /\ env = EnvNames
    /\ serial = TRUE
    /\ faults = 0
    /\ EmptyStores
    /\ bucket = TextObjects
    /\ slugs = {}
    /\ IdleWidget
    /\ IdleKeys
    /\ IdleRuns
    /\ secret = FALSE
    /\ IdleQuery
    /\ IdleChunk
    /\ raw \in RawTexts
    /\ sanitized = <<>>
    /\ cleaned = <<>>
    /\ text_snippet = <<>>
    /\ spc = "scrubUnicode"
SpecClean == InitClean /\ [][NextClean]_vars

\* A call of smartChunk with the default maxChars and overlap, on a text of
\* at most MaxParas blocks.
NextChunk ==
    \/ ChunkFor
    \/ ChunkReturn

InitChunk ==
    /\ env = EnvNames
    /\ serial = TRUE
    /\ faults = 0
    /\ EmptyStores
    /\ bucket = TextObjects
    /\ slugs = {}
    /\ IdleWidget
    /\ IdleKeys
    /\ IdleRuns
    /\ secret = FALSE
    /\ IdleQuery
    /\ text \in Texts
    /\ at = 1
    /\ buf = <<>>
    /\ out = <<>>
    /\ cpc = "for"
    /\ loop = NoLoop
    /\ IdleClean
SpecChunk == InitChunk /\ [][NextChunk]_vars

\* The stores as an ingest of (d1, v1) with ANSWER_TOPK_MAX chunks left them,
\* all of its writes applied.
IngestedStores ==
    LET d == DocOrder[1]
        v == VerOrder[1]
    IN /\ documents = {d}
       /\ doc_versions = [x \in Vers |-> IF x = v
                             THEN [status |-> "ready", document_id |-> d]
                             ELSE [status |-> "none", document_id |-> "none"]]
       /\ share_surfaces = [x \in Docs |-> IF x = d THEN v ELSE "none"]
       /\ page_slug = [x \in Docs |-> IF x = d THEN d ELSE "none"]
       /\ doc_sections = {[doc_version_id |-> v, rows |-> ANSWER_TOPK_MAX, run |-> 1]}
       /\ jobs = [k \in Docs \X Vers |-> IF k = <<d, v>>
                     THEN [status |-> "succeeded", error |-> ""]
                     ELSE [status |-> "none", error |-> ""]]
       /\ ns = [k \in Docs \X Vers |-> IF k = <<d, v>>
                   THEN Ranges([i \in Idx |-> IF i < ANSWER_TOPK_MAX THEN 1 ELSE 0])
                   ELSE EmptyNs]

\* One request to a query endpoint; the stores are empty or hold one
\* ingested document, and no ingest is running.
NextQuery ==
    \/ QReceive
    \/ LookupSlug
    \/ EmbedQuery
    \/ QueryIndex
    \/ Completion

InitQuery ==
    /\ env \in SUBSET EnvNames
    /\ serial = TRUE
    /\ faults = 0
    /\ EmptyStores \/ IngestedStores
    /\ bucket = TextObjects
    /\ slugs = {}
    /\ IdleWidget
    /\ IdleKeys
    /\ IdleRuns
    /\ secret \in BOOLEAN
    /\ IdleQuery
    /\ IdleChunk
    /\ IdleClean
SpecQuery == InitQuery /\ [][NextQuery]_vars

\* One request for an object of any format, the relational writes of which
\* succeed.
NextExtract == Run(1)
InitExtract ==
    /\ serial = TRUE
    /\ faults = 0
    /\ env \in SUBSET EnvNames
    /\ EmptyStores
    /\ bucket = Objects
    /\ slugs = {}
    /\ IdleWidget
    /\ IdleKeys
    /\ IdleRuns
    /\ secret = FALSE
    /\ IdleQuery
    /\ IdleChunk
    /\ IdleClean
SpecExtract == InitExtract /\ [][NextExtract]_vars

\* The while loop of flush on a string longer than maxChars, for the default
\* parameters and for small ones.
NextSlice == WhileBody

InitSlice ==
    /\ env = EnvNames
    /\ serial = TRUE
    /\ faults = 0
    /\ EmptyStores
    /\ bucket = TextObjects
    /\ slugs = {}
    /\ IdleWidget
    /\ IdleKeys
    /\ IdleRuns
    /\ secret = FALSE
    /\ IdleQuery
    /\ text = <<>>
    /\ at = 1
    /\ buf = <<>>
    /\ out = <<>>
    /\ cpc = "flush"
    /\ loop \in SliceCalls
    /\ IdleClean
SpecSlice == InitSlice /\ [][NextSlice]_vars

\* An ingest request and a query request with ids of the callers', each
\* building its namespace string.
NextKey ==
    \/ IngestNamespace
    \/ QueryNamespace

InitKey ==
    /\ env = EnvNames
    /\ serial = TRUE
    /\ faults = 0
    /\ EmptyStores
    /\ bucket = TextObjects
    /\ slugs = {}
    /\ IdleWidget
    /\ idPairs \in [1..2 -> Ids \X Ids]
    /\ namespaces = <<>>
    /\ IdleRuns
    /\ secret = FALSE
    /\ IdleQuery
    /\ IdleChunk
    /\ IdleClean
SpecKey == InitKey /\ [][NextKey]_vars

\* The embed widget client: the handlers of its buttons, its effect and the
\* callbacks of the SDK, in any order.
NextWidget ==
    \/ NormalizeStatus
    \/ StartClick
    \/ GetUserMedia
    \/ FetchSignedUrl
    \/ SdkConnect
    \/ SdkConnectFails
    \/ SdkDisconnect
    \/ SdkError
    \/ StartResumes
    \/ StopClick
    \/ SdkEndSession
    \/ StopResumes

\* The Client is mounted with or without an agent id, inline or full.
InitWidget ==
    /\ env = EnvNames
    /\ serial = TRUE
    /\ faults = 0
    /\ EmptyStores
    /\ bucket = TextObjects
    /\ slugs = {}
    /\ props \in [agentId : {"", "agent"}, inlineMode : BOOLEAN]
    /\ phase = "idle"
    /\ err = ""
    /\ conversation = NoConversation
    /\ effectStatus = "none"
    /\ startAt = "idle"
    /\ stopAt = "idle"
    /\ IdleKeys
    /\ IdleRuns
    /\ secret = FALSE
    /\ IdleQuery
    /\ IdleChunk
    /\ IdleClean
SpecWidget == InitWidget /\ [][NextWidget]_vars

\* No handler of the Client is in flight: start() and stop() have returned
\* and the effect has run with the present status.
NoHandlerInFlight ==
    /\ startAt = "idle"
    /\ stopAt = "idle"
    /\ effectStatus = conversation.status

SuppliedSlugs == {"s"}

\* Requests handled one after the other, with or without a slug of the
\* caller's.
InitSlug ==
    /\ serial = TRUE
    /\ faults = MaxWriteFaults
    /\ env \in SUBSET EnvNames
    /\ EmptyStores
    /\ bucket = TextObjects
    /\ slugs = SuppliedSlugs
    /\ IdleWidget
    /\ IdleKeys
    /\ IdleRuns
    /\ secret = FALSE
    /\ IdleQuery
    /\ IdleChunk
    /\ IdleClean
SpecSlug == InitSlug /\ [][Next]_vars

\* Requests handled concurrently; the relational writes, which do not touch
\* the vector index, all succeed.
InitConc == serial = FALSE /\ faults = 0 /\ InitRows
SpecConc == InitConc /\ [][Next]_vars
====
